---- MODULE Spec2Model ----
(***************************************************************************)
(* Business-plan evaluator (src/src/evaluators/plan_evaluator.py) over the *)
(* plan record of src/src/models/business_plan.py.                         *)
(*                                                                         *)
(* Numbers.  Scores, criterion points and breakdown entries are floats in  *)
(* the code; here they are integers counting thousandths of a point        *)
(* (50.0 is 50000, a keyword is worth 2500).  Weights are hundredths       *)
(* (0.35 is 35), so a weighted sum of scores divided by 100 is exact.      *)
(* A float quotient a / b compared with a threshold k is modelled by the   *)
(* exact comparison a >= k * b for b > 0; a / 0 raises ZeroDivisionError.  *)
(*                                                                         *)
(* Text.  A string is a sequence of characters, one element per code       *)
(* point; a character outside ASCII is named by its code point, such as    *)
(* "U+7279".  Dictionary keys and message templates that are Japanese in   *)
(* the source are named in English here.                                   *)
(***************************************************************************)
EXTENDS Integers, Sequences, FiniteSets, TLC

VARIABLES
    plan,                \* the BusinessPlan object handed to the evaluator
    evaluation_details,  \* PlanEvaluator.evaluation_details, per evaluator instance
    last_call,           \* the most recent call: how it ended, and the plan's
                         \* scores when it was made
    plans,               \* the BusinessPlan objects a caller holds, in a list
    last_detailed,       \* per evaluator, the latest evaluate call made with
                         \* detailed=True: the plan it was given, how it ended
    args,                \* the arguments of a call of a function
    returned             \* what that call returned

vars == <<plan, evaluation_details, last_call, plans, last_detailed, args, returned>>

\* the variables of a function call, and those of the evaluator and its plans
callVars == <<args, returned>>
evaluatorVars == <<plan, evaluation_details, plans, last_detailed>>

\* Python's None (a record, so that it compares with the records it stands in for)
None == [none |-> TRUE]

(***************************************************************************)
(* Bounds of the model.                                                    *)
(***************************************************************************)
MaxTeam == 5        \* longest team_requirements list drawn
MaxFactors == 4     \* longest key_success_factors list drawn
MaxRisks == 2       \* longest risk_factors / mitigation_strategies list drawn
NumEvaluators == 1  \* PlanEvaluator instances
MaxChanged == 1     \* fields in which a drawn plan differs from a test fixture

Evaluators == 1..NumEvaluators

(***************************************************************************)
(* Enumerations of the data model.                                         *)
(***************************************************************************)
PlanCategory ==
    {"SaaS", "Marketplace", "AI/ML", "FinTech", "HealthTech", "EdTech",
     "CleanTech", "E-commerce", "Consumer", "B2B", "Other"}

MarketStage == {"emerging", "growing", "mature", "declining"}

(***************************************************************************)
(* Small arithmetic and text helpers.                                      *)
(***************************************************************************)
Min(a, b) == IF a <= b THEN a ELSE b
Max(a, b) == IF a >= b THEN a ELSE b

\* n points as thousandths
Pts(n) == n * 1000

\* a list of n items (only the length and the identity of a list matter)
Items(prefix, n) == [i \in 1..n |-> <<prefix, i>>]

\* a text of n filler characters
Filler(n) == [i \in 1..n |-> "x"]

\* str.lower() on the letters: the ASCII capitals fold; the other characters
\* used here (lower-case letters, kana, kanji, digits, punctuation) have no
\* lower-case form and stay as they are
ToLower ==
    ("A" :> "a") @@ ("B" :> "b") @@ ("C" :> "c") @@ ("D" :> "d") @@ ("E" :> "e") @@
    ("F" :> "f") @@ ("G" :> "g") @@ ("H" :> "h") @@ ("I" :> "i") @@ ("J" :> "j") @@
    ("K" :> "k") @@ ("L" :> "l") @@ ("M" :> "m") @@ ("N" :> "n") @@ ("O" :> "o") @@
    ("P" :> "p") @@ ("Q" :> "q") @@ ("R" :> "r") @@ ("S" :> "s") @@ ("T" :> "t") @@
    ("U" :> "u") @@ ("V" :> "v") @@ ("W" :> "w") @@ ("X" :> "x") @@ ("Y" :> "y") @@
    ("Z" :> "z")

LowerChar(c) == IF c \in DOMAIN ToLower THEN ToLower[c] ELSE c

\* str.lower()
Lower(s) == [i \in 1..Len(s) |-> LowerChar(s[i])]

\* the Python test  sub in s  on strings
Contains(s, sub) ==
    \E i \in 1..(Len(s) - Len(sub) + 1) : SubSeq(s, i, i + Len(sub) - 1) = sub

\* the float test  a / b >= k  for b > 0
QuotientAtLeast(a, b, k) == a >= k * b

\* the float test  a / b * 100 >= pct  for b > 0 and pct a multiple of 100
PercentAtLeast(a, b, pct) == a >= (pct \div 100) * b

(***************************************************************************)
(* PlanEvaluator.CATEGORY_WEIGHTS, in hundredths.                          *)
(***************************************************************************)
Weights(f, p, i) == [feasibility |-> f, profitability |-> p, innovation |-> i]

\* mutant of CATEGORY_WEIGHTS: one profile mistyped
CATEGORY_WEIGHTS_Mistyped ==
    ("AI/ML"       :> Weights(30, 40, 30)) @@
    ("SaaS"        :> Weights(35, 45, 20)) @@
    ("FinTech"     :> Weights(35, 40, 25)) @@
    ("HealthTech"  :> Weights(40, 35, 25)) @@
    ("CleanTech"   :> Weights(30, 35, 30)) @@
    ("Marketplace" :> Weights(40, 40, 20)) @@
    ("E-commerce"  :> Weights(35, 45, 20)) @@
    ("Consumer"    :> Weights(30, 50, 20)) @@
    ("EdTech"      :> Weights(35, 35, 30)) @@
    ("B2B"         :> Weights(35, 45, 20)) @@
    ("Other"       :> Weights(35, 45, 20))

CATEGORY_WEIGHTS ==
    ("AI/ML"       :> Weights(30, 40, 30)) @@
    ("SaaS"        :> Weights(35, 45, 20)) @@
    ("FinTech"     :> Weights(35, 40, 25)) @@
    ("HealthTech"  :> Weights(40, 35, 25)) @@
    ("CleanTech"   :> Weights(30, 35, 35)) @@
    ("Marketplace" :> Weights(40, 40, 20)) @@
    ("E-commerce"  :> Weights(35, 45, 20)) @@
    ("Consumer"    :> Weights(30, 50, 20)) @@
    ("EdTech"      :> Weights(35, 35, 30)) @@
    ("B2B"         :> Weights(35, 45, 20)) @@
    ("Other"       :> Weights(35, 45, 20))

\* mutant of WeightsGet: the default profile for every category
WeightsGetDefault(category) == CATEGORY_WEIGHTS["Other"]

\* CATEGORY_WEIGHTS.get(category, CATEGORY_WEIGHTS["Other"])
WeightsGet(category) ==
    IF category \in DOMAIN CATEGORY_WEIGHTS
    THEN CATEGORY_WEIGHTS[category]
    ELSE CATEGORY_WEIGHTS["Other"]

(***************************************************************************)
(* _evaluate_feasibility: one operator per criterion, then the sum.        *)
(***************************************************************************)
FeasGrowth(p) ==
    LET growth == p.market_analysis.market_growth_rate IN
    IF growth >= 30 THEN Pts(20)
    ELSE IF growth >= 20 THEN Pts(15)
    ELSE IF growth >= 10 THEN Pts(10)
    ELSE Pts(5)

FeasStage(p) ==
    LET stage == p.market_analysis.market_stage IN
    IF stage = "growing" THEN Pts(15)
    ELSE IF stage = "emerging" THEN Pts(10)
    ELSE IF stage = "mature" THEN Pts(5)
    ELSE 0

FeasBreakEven(p) ==
    LET break_even == p.financial_projection.break_even_months IN
    IF break_even <= 18 THEN Pts(15)
    ELSE IF break_even <= 24 THEN Pts(12)
    ELSE IF break_even <= 36 THEN Pts(8)
    ELSE Pts(3)

\* mutant of FeasLtvCac: the thresholds are exclusive
FeasLtvCacExclusive(p) ==
    LET cac == p.financial_projection.customer_cac
        ltv == p.financial_projection.customer_ltv
    IN  IF cac > 0
        THEN IF ltv > 5 * cac THEN Pts(20)
             ELSE IF ltv > 4 * cac THEN Pts(17)
             ELSE IF ltv > 3 * cac THEN Pts(13)
             ELSE IF ltv > 2 * cac THEN Pts(8)
             ELSE Pts(3)
        ELSE 0

\* mutant of FeasLtvCac: CAC = 0 falls into the lowest tier
FeasLtvCacZeroLowest(p) ==
    LET cac == p.financial_projection.customer_cac
        ltv == p.financial_projection.customer_ltv
    IN  IF cac > 0 /\ QuotientAtLeast(ltv, cac, 5) THEN Pts(20)
        ELSE IF cac > 0 /\ QuotientAtLeast(ltv, cac, 4) THEN Pts(17)
        ELSE IF cac > 0 /\ QuotientAtLeast(ltv, cac, 3) THEN Pts(13)
        ELSE IF cac > 0 /\ QuotientAtLeast(ltv, cac, 2) THEN Pts(8)
        ELSE Pts(3)

FeasLtvCac(p) ==
    LET cac == p.financial_projection.customer_cac
        ltv == p.financial_projection.customer_ltv
    IN  IF cac > 0
        THEN IF QuotientAtLeast(ltv, cac, 5) THEN Pts(20)
             ELSE IF QuotientAtLeast(ltv, cac, 4) THEN Pts(17)
             ELSE IF QuotientAtLeast(ltv, cac, 3) THEN Pts(13)
             ELSE IF QuotientAtLeast(ltv, cac, 2) THEN Pts(8)
             ELSE Pts(3)
        ELSE 0

\* line 172 divides by initial_investment under the guard year5_revenue > 0
FeasRoiRaises(p) ==
    /\ p.financial_projection.year5_revenue > 0
    /\ p.financial_projection.initial_investment = 0

FeasRoi(p) ==
    LET investment == p.financial_projection.initial_investment
        year5_revenue == p.financial_projection.year5_revenue
    IN  IF year5_revenue > 0
        THEN IF PercentAtLeast(year5_revenue - investment, investment, 500) THEN Pts(15)
             ELSE IF PercentAtLeast(year5_revenue - investment, investment, 300) THEN Pts(12)
             ELSE IF PercentAtLeast(year5_revenue - investment, investment, 200) THEN Pts(9)
             ELSE IF PercentAtLeast(year5_revenue - investment, investment, 100) THEN Pts(5)
             ELSE Pts(2)
        ELSE 0

\* mutant of FeasTeam: an empty team earns nothing
FeasTeamEmptyZero(p) ==
    IF Len(p.team_requirements) >= 5 THEN Pts(10)
    ELSE IF Len(p.team_requirements) >= 3 THEN Pts(7)
    ELSE IF Len(p.team_requirements) >= 1 THEN Pts(3)
    ELSE 0

FeasTeam(p) ==
    IF Len(p.team_requirements) >= 5 THEN Pts(10)
    ELSE IF Len(p.team_requirements) >= 3 THEN Pts(7)
    ELSE Pts(3)

FeasMitigation(p) ==
    IF Len(p.mitigation_strategies) >= Len(p.risk_factors) THEN Pts(5)
    ELSE Pts(2)

FeasBreakdown(p) ==
    [market_growth_rate |-> FeasGrowth(p),
     market_stage       |-> FeasStage(p),
     break_even         |-> FeasBreakEven(p),
     ltv_cac            |-> FeasLtvCac(p),
     roi                |-> FeasRoi(p),
     team               |-> FeasTeam(p),
     risk_mitigation    |-> FeasMitigation(p)]

\* mutant of Clamp: the upper bound forgotten
ClampNoUpper(score) == Max(0, score)

\* min(100.0, max(0.0, score))
Clamp(score) == Min(Pts(100), Max(0, score))

\* the score returned and the breakdown filled in, given that nothing raises
EvaluateFeasibility(p) ==
    LET breakdown == FeasBreakdown(p)
        score == Pts(50) + breakdown.market_growth_rate + breakdown.market_stage
                 + breakdown.break_even + breakdown.ltv_cac + breakdown.roi
                 + breakdown.team + breakdown.risk_mitigation
    IN  [score |-> Clamp(score), breakdown |-> breakdown]

(***************************************************************************)
(* _evaluate_profitability.                                                *)
(***************************************************************************)
ProfYear5(p) ==
    LET year5 == p.financial_projection.year5_revenue IN
    IF year5 >= 100000000 THEN Pts(25)
    ELSE IF year5 >= 50000000 THEN Pts(22)
    ELSE IF year5 >= 10000000 THEN Pts(18)
    ELSE IF year5 >= 1000000 THEN Pts(12)
    ELSE Pts(5)

ProfMargin(p) ==
    LET margin == p.financial_projection.profit_margin_year3 IN
    IF margin >= 40 THEN Pts(20)
    ELSE IF margin >= 30 THEN Pts(17)
    ELSE IF margin >= 20 THEN Pts(13)
    ELSE IF margin >= 10 THEN Pts(8)
    ELSE Pts(3)

ProfGrowthRatio(p) ==
    LET year1 == p.financial_projection.year1_revenue
        year3 == p.financial_projection.year3_revenue
    IN  IF year1 > 0
        THEN IF QuotientAtLeast(year3, year1, 20) THEN Pts(20)
             ELSE IF QuotientAtLeast(year3, year1, 10) THEN Pts(17)
             ELSE IF QuotientAtLeast(year3, year1, 5) THEN Pts(13)
             ELSE IF QuotientAtLeast(year3, year1, 2) THEN Pts(8)
             ELSE Pts(3)
        ELSE 0

ProfMarketSize(p) ==
    LET market_size == p.market_analysis.market_size IN
    IF market_size >= 500 THEN Pts(20)
    ELSE IF market_size >= 100 THEN Pts(17)
    ELSE IF market_size >= 50 THEN Pts(13)
    ELSE IF market_size >= 10 THEN Pts(8)
    ELSE Pts(3)

\* growth_potential = market_size * market_growth_rate / 100, a division by
\* the constant 100: growth_potential >= k is market_size * rate >= 100 * k
\* mutant of ProfGrowthPotential: the product is not divided by 100
ProfGrowthPotentialUnscaled(p) ==
    LET product == p.market_analysis.market_size * p.market_analysis.market_growth_rate IN
    IF product >= 50 THEN Pts(15)
    ELSE IF product >= 20 THEN Pts(12)
    ELSE IF product >= 10 THEN Pts(8)
    ELSE Pts(3)

ProfGrowthPotential(p) ==
    LET product == p.market_analysis.market_size * p.market_analysis.market_growth_rate IN
    IF product >= 100 * 50 THEN Pts(15)
    ELSE IF product >= 100 * 20 THEN Pts(12)
    ELSE IF product >= 100 * 10 THEN Pts(8)
    ELSE Pts(3)

ProfBreakdown(p) ==
    [year5_revenue       |-> ProfYear5(p),
     profit_margin_year3 |-> ProfMargin(p),
     growth_ratio        |-> ProfGrowthRatio(p),
     market_size         |-> ProfMarketSize(p),
     growth_potential    |-> ProfGrowthPotential(p)]

EvaluateProfitability(p) ==
    LET breakdown == ProfBreakdown(p)
        score == Pts(40) + breakdown.year5_revenue + breakdown.profit_margin_year3
                 + breakdown.growth_ratio + breakdown.market_size
                 + breakdown.growth_potential
    IN  [score |-> Clamp(score), breakdown |-> breakdown]

(***************************************************************************)
(* _evaluate_innovation.                                                   *)
(***************************************************************************)
high_innovation == {"AI/ML", "CleanTech", "FinTech", "HealthTech"}

innovation_keywords ==
    << <<"A", "I">>,
       <<"U+6A5F", "U+68B0", "U+5B66", "U+7FD2">>,
       <<"U+81EA", "U+52D5", "U+5316">>,
       <<"U+30D6", "U+30ED", "U+30C3", "U+30AF", "U+30C1", "U+30A7", "U+30FC", "U+30F3">>,
       <<"U+65B0", "U+898F">>,
       <<"U+72EC", "U+81EA">>,
       <<"U+7279", "U+8A31">>,
       <<"U+30D7", "U+30E9", "U+30C3", "U+30C8", "U+30D5", "U+30A9", "U+30FC", "U+30E0">>,
       <<"U+30A8", "U+30B3", "U+30B7", "U+30B9", "U+30C6", "U+30E0">>,
       <<"U+9769", "U+547D">>,
       <<"U+5909", "U+9769">> >>

InnovCategory(p) ==
    IF p.category \in high_innovation THEN Pts(20) ELSE Pts(10)

InnovStage(p) ==
    LET stage == p.market_analysis.market_stage IN
    IF stage = "emerging" THEN Pts(20)
    ELSE IF stage = "growing" THEN Pts(15)
    ELSE IF stage = "mature" THEN Pts(5)
    ELSE 0

InnovProblem(p) ==
    LET problem_len == Len(p.problem_statement) IN
    IF problem_len >= 200 THEN Pts(15)
    ELSE IF problem_len >= 100 THEN Pts(10)
    ELSE Pts(5)

\* mutant of KeywordCount: neither the text nor the keywords are lowered
KeywordCountCaseSensitive(p) ==
    LET solution_text == p.solution \o p.value_proposition IN
    Cardinality({k \in 1..Len(innovation_keywords) :
                    Contains(solution_text, innovation_keywords[k])})

\* sum(1 for kw in innovation_keywords if kw.lower() in solution_lower)
KeywordCount(p) ==
    LET solution_lower == Lower(p.solution) \o Lower(p.value_proposition) IN
    Cardinality({k \in 1..Len(innovation_keywords) :
                    Contains(solution_lower, Lower(innovation_keywords[k]))})

\* min(10, keyword_count * 2.5)
InnovKeywords(p) == Min(Pts(10), KeywordCount(p) * 2500)

InnovFactors(p) ==
    LET n == Len(p.market_analysis.key_success_factors) IN
    IF n >= 4 THEN Pts(15)
    ELSE IF n >= 3 THEN Pts(10)
    ELSE Pts(5)

InnovReasoning(p) ==
    LET reasoning_len == Len(p.reasoning) IN
    IF reasoning_len >= 200 THEN Pts(15)
    ELSE IF reasoning_len >= 100 THEN Pts(10)
    ELSE IF reasoning_len >= 50 THEN Pts(5)
    ELSE 0

InnovBreakdown(p) ==
    [category            |-> InnovCategory(p),
     market_stage        |-> InnovStage(p),
     problem_statement   |-> InnovProblem(p),
     innovation_keywords |-> InnovKeywords(p),
     success_factors     |-> InnovFactors(p),
     reasoning           |-> InnovReasoning(p)]

EvaluateInnovation(p) ==
    LET breakdown == InnovBreakdown(p)
        score == Pts(50) + breakdown.category + breakdown.market_stage
                 + breakdown.problem_statement + breakdown.innovation_keywords
                 + breakdown.success_factors + breakdown.reasoning
    IN  [score |-> Clamp(score), breakdown |-> breakdown]


(***************************************************************************)
(* evaluate and _generate_evaluation_details.                              *)
(***************************************************************************)
\* How the three sub-score calls of evaluate (lines 63-65) end.  The first
\* one reads plan.market_analysis.* (line 104), then
\* plan.financial_projection.* (line 133), then divides (line 172); the two
\* divisions of lines 149 and 262 are guarded by their own divisor.
EvaluateResult(p) ==
    IF p.market_analysis = None THEN "AttributeError"
    ELSE IF p.financial_projection = None THEN "AttributeError"
    ELSE IF FeasRoiRaises(p) THEN "ZeroDivisionError"
    ELSE "returned"

\* lines 75-79, with the weights of lines 72-73
OverallScore(category, feasibility, profitability, innovation) ==
    LET weights == WeightsGet(category) IN
    (feasibility * weights.feasibility
     + profitability * weights.profitability
     + innovation * weights.innovation) \div 100

\* mutant of Scored: the evaluation also counts itself in plan.iteration
ScoredCountingIteration(p, feasibility, profitability, innovation) ==
    [p EXCEPT !.iteration = @ + 1,
              !.feasibility_score = feasibility,
              !.profitability_score = profitability,
              !.innovation_score = innovation,
              !.overall_score =
                  OverallScore(p.category, feasibility, profitability, innovation)]

\* mutant of Scored: the scores are added to the ones the plan holds
ScoredAccumulating(p, feasibility, profitability, innovation) ==
    [p EXCEPT !.feasibility_score = @ + feasibility,
              !.profitability_score = @ + profitability,
              !.innovation_score = @ + innovation,
              !.overall_score =
                  @ + OverallScore(p.category, feasibility, profitability, innovation)]

\* the plan as lines 67-79 leave it, given the three sub-scores
Scored(p, feasibility, profitability, innovation) ==
    [p EXCEPT !.feasibility_score = feasibility,
              !.profitability_score = profitability,
              !.innovation_score = innovation,
              !.overall_score =
                  OverallScore(p.category, feasibility, profitability, innovation)]

Msg(t) == [text |-> t]
LtvCacMsg(t, p) ==
    [text |-> t,
     ltv |-> p.financial_projection.customer_ltv,
     cac |-> p.financial_projection.customer_cac]

\* appends item to list when cond holds
AppendIf(list, cond, item) == IF cond THEN Append(list, item) ELSE list

LtvCacComputed(p) == p.financial_projection.customer_cac > 0
LtvCacAtLeast(p, k) ==
    QuotientAtLeast(p.financial_projection.customer_ltv,
                    p.financial_projection.customer_cac, k)

\* lines 419-457: the three lists, each built in source order
Strengths(p) ==
    LET s1 == AppendIf(<<>>, p.feasibility_score >= Pts(80), Msg("feasibility_very_high"))
        s2 == AppendIf(s1, LtvCacComputed(p) /\ LtvCacAtLeast(p, 5),
                       LtvCacMsg("ltv_cac_excellent", p))
        s3 == AppendIf(s2, p.profitability_score >= Pts(80), Msg("profitability_very_high"))
    IN  AppendIf(s3, p.innovation_score >= Pts(80), Msg("innovation_high"))

Weaknesses(p) ==
    LET w1 == AppendIf(<<>>, p.feasibility_score < Pts(60), Msg("feasibility_issue"))
        w2 == AppendIf(w1, LtvCacComputed(p) /\ ~LtvCacAtLeast(p, 3),
                       LtvCacMsg("ltv_cac_low", p))
        w3 == AppendIf(w2, p.profitability_score < Pts(60), Msg("profitability_issue"))
        w4 == AppendIf(w3, p.innovation_score < Pts(60), Msg("innovation_lacking"))
    IN  AppendIf(w4, p.market_analysis.market_stage = "declining", Msg("declining_market"))

\* mutant of Recommendations: the market stage is looked at first
RecommendationsStageFirst(p) ==
    LET r0 == AppendIf(<<>>, p.market_analysis.market_stage = "emerging",
                       Msg("emerging_market_early_entry"))
        r1 == AppendIf(r0, LtvCacComputed(p) /\ ~LtvCacAtLeast(p, 3),
                       Msg("raise_ltv_or_cut_cac"))
        r2 == AppendIf(r1, p.profitability_score < Pts(60), Msg("rethink_market_or_growth"))
    IN  AppendIf(r2, p.innovation_score < Pts(60), Msg("strengthen_technology_or_model"))

Recommendations(p) ==
    LET r1 == AppendIf(<<>>, LtvCacComputed(p) /\ ~LtvCacAtLeast(p, 3),
                       Msg("raise_ltv_or_cut_cac"))
        r2 == AppendIf(r1, p.profitability_score < Pts(60), Msg("rethink_market_or_growth"))
        r3 == AppendIf(r2, p.innovation_score < Pts(60), Msg("strengthen_technology_or_model"))
    IN  AppendIf(r3, p.market_analysis.market_stage = "emerging", Msg("emerging_market_early_entry"))

GenerateEvaluationDetails(p, feasibility_breakdown, profitability_breakdown, innovation_breakdown) ==
    [score           |-> p.overall_score,
     max_score       |-> Pts(100),
     breakdown       |-> [feasibility   |-> feasibility_breakdown,
                          profitability |-> profitability_breakdown,
                          innovation    |-> innovation_breakdown],
     strengths       |-> Strengths(p),
     weaknesses      |-> Weaknesses(p),
     recommendations |-> Recommendations(p)]


(***************************************************************************)
(* The plans handed to the evaluator.  The base plans are the fixtures of  *)
(* the test suite; every other plan drawn is a fixture with up to          *)
(* MaxChanged fields replaced by values on and around the thresholds the   *)
(* evaluator compares them with.  Money is in dollars.                     *)
(***************************************************************************)
MarketAnalysis(size, growth, stage, factors) ==
    [market_size           |-> size,
     market_growth_rate    |-> growth,
     target_audience       |-> "audience",
     market_stage          |-> stage,
     competitive_landscape |-> "landscape",
     key_success_factors   |-> Items("factor", factors)]

FinancialProjection(y1, y3, y5, investment, months, margin, cac, ltv) ==
    [year1_revenue       |-> y1,
     year3_revenue       |-> y3,
     year5_revenue       |-> y5,
     initial_investment  |-> investment,
     break_even_months   |-> months,
     profit_margin_year3 |-> margin,
     customer_cac        |-> cac,
     customer_ltv        |-> ltv]

\* BusinessPlan(...) with the dataclass defaults for what is not passed
BusinessPlan(id, category, problem, solution, proposition, market, financial, milestones, team, risks, mitigations, reasoning, tags) ==
    [id                    |-> id,
     title                 |-> <<"title", id>>,
     category              |-> category,
     created_at            |-> "now",
     iteration             |-> 1,
     problem_statement     |-> problem,
     solution              |-> solution,
     value_proposition     |-> proposition,
     business_model        |-> "business_model",
     market_analysis       |-> market,
     financial_projection  |-> financial,
     key_milestones        |-> Items("milestone", milestones),
     team_requirements     |-> Items("role", team),
     risk_factors          |-> Items("risk", risks),
     mitigation_strategies |-> Items("mitigation", mitigations),
     feasibility_score     |-> 0,
     profitability_score   |-> 0,
     innovation_score      |-> 0,
     overall_score         |-> 0,
     reasoning             |-> reasoning,
     references            |-> <<>>,
     tags                  |-> Items("tag", tags)]

\* tests/test_evaluators.py, high_score_plan
high_score_plan ==
    BusinessPlan("high-score", "AI/ML",
        Filler(35),
        <<"U+9769", "U+65B0", "U+7684", "U+306A", "A", "I", "U+30BD", "U+30EA",
          "U+30E5", "U+30FC", "U+30B7", "U+30E7", "U+30F3", "U+3092", "U+63D0",
          "U+4F9B", "U+3002", "U+7279", "U+8A31", "U+6280", "U+8853", "U+3092",
          "U+4F7F", "U+7528", "U+3002">>,
        <<"U+30B3", "U+30B9", "U+30C8", "U+3092", "8", "0", "%", "U+524A",
          "U+6E1B", "U+3001", "U+52B9", "U+7387", "U+3092", "5", "U+500D",
          "U+5411", "U+4E0A", "U+3002", "U+72EC", "U+81EA", "U+306E", "A", "I",
          "U+6280", "U+8853", "U+3002">>,
        MarketAnalysis(500, 35, "growing", 5),
        FinancialProjection(1000000, 50000000, 200000000, 2000000, 18, 40, 1000, 5000),
        4, 5, 3, 3, Filler(27), 3)

\* tests/test_evaluators.py, low_score_plan
low_score_plan ==
    BusinessPlan("low-score", "SaaS",
        Filler(1),
        <<"U+666E", "U+901A">>,
        <<"U+5C11">>,
        MarketAnalysis(1, 2, "declining", 1),
        FinancialProjection(10000, 15000, 20000, 1000000, 84, 5, 10000, 8000),
        1, 1, 1, 1, Filler(6), 1)

\* tests/conftest.py, sample_business_plan
sample_business_plan ==
    BusinessPlan("test-plan-1", "SaaS",
        Filler(7),
        <<"U+30C6", "U+30B9", "U+30C8", "U+30BD", "U+30EA", "U+30E5", "U+30FC",
          "U+30B7", "U+30E7", "U+30F3">>,
        <<"U+30C6", "U+30B9", "U+30C8", "U+4FA1", "U+5024", "U+63D0", "U+6848">>,
        MarketAnalysis(100, 20, "growing", 3),
        FinancialProjection(500000, 5000000, 20000000, 1000000, 24, 30, 1000, 3000),
        2, 2, 1, 1, Filler(5), 2)

Fixtures == {high_score_plan, low_score_plan, sample_business_plan}

\* solution texts: none, one keyword in capitals, "maintain" (the keyword in
\* lower case inside a word), a keyword twice, a text ending in "A", and
\* four and five different keywords
SolutionTexts ==
    { <<>>,
      <<"A", "I">>,
      <<"m", "a", "i", "n", "t", "a", "i", "n">>,
      <<"A", "I", "A", "I">>,
      <<"U+30D7", "U+30E9", "U+30F3", "A">>,
      <<"A", "I", "U+81EA", "U+52D5", "U+5316", "U+65B0", "U+898F", "U+72EC", "U+81EA">>,
      <<"A", "I", "U+81EA", "U+52D5", "U+5316", "U+65B0", "U+898F", "U+72EC", "U+81EA",
        "U+7279", "U+8A31">> }

\* value propositions: none, a text starting with "I", one keyword, and the
\* two keywords that share a character
PropositionTexts ==
    { <<>>,
      <<"I", "T">>,
      <<"U+7279", "U+8A31">>,
      <<"U+5909", "U+9769", "U+547D">> }

ScoreFields ==
    {"feasibility_score", "profitability_score", "innovation_score", "overall_score"}

\* The numeric values sit on and just below each threshold; the quotients
\* and the product are placed on their thresholds for the low-score
\* fixture (CAC 10000, year 1 revenue 10000, investment 1000000, year 5
\* revenue 20000, growth rate 2), whose sums stay below the clamp.
FieldValues ==
    [category              |-> PlanCategory,
     market_analysis       |-> {None},
     financial_projection  |-> {None},
     market_stage          |-> MarketStage,
     market_growth_rate    |-> {0, 9, 10, 19, 20, 29, 30},
     market_size           |-> {0, 9, 10, 49, 50, 99, 100, 499, 500, 999, 1000,
                                2499, 2500},
     key_success_factors   |-> {Items("factor", n) : n \in 0..MaxFactors},
     year1_revenue         |-> {0, 750, 1000000},
     year3_revenue         |-> {0, 19999, 20000, 50000, 100000, 199999, 200000},
     year5_revenue         |-> {0, 999999, 1000000, 1999999, 2000000, 3000000,
                                4000000, 5999999, 6000000, 9999999, 10000000,
                                50000000, 99999999, 100000000},
     initial_investment    |-> {0, 5000, 10000, 2000000},
     break_even_months     |-> {0, 18, 19, 24, 25, 36, 37},
     profit_margin_year3   |-> {0, 9, 10, 19, 20, 29, 30, 39, 40},
     customer_cac          |-> {0, 1000},
     customer_ltv          |-> {0, 1999, 2000, 3000, 4000, 4999, 5000, 19999,
                                20000, 30000, 40000, 49999, 50000},
     team_requirements     |-> {Items("role", n) : n \in 0..MaxTeam},
     risk_factors          |-> {Items("risk", n) : n \in 0..MaxRisks},
     mitigation_strategies |-> {Items("mitigation", n) : n \in 0..MaxRisks},
     problem_statement     |-> {Filler(n) : n \in {0, 99, 100, 199, 200}},
     reasoning             |-> {Filler(n) : n \in {0, 49, 50, 99, 100, 199, 200}},
     solution              |-> SolutionTexts,
     value_proposition     |-> PropositionTexts,
     feasibility_score     |-> {Pts(12)},
     profitability_score   |-> {Pts(34)},
     innovation_score      |-> {Pts(56)},
     overall_score         |-> {Pts(78)}]

\* the plan p with field f, of the plan or of one of its two parts, set to v
Change(p, f, v) ==
    IF f \in DOMAIN p THEN [p EXCEPT ![f] = v]
    ELSE IF p.market_analysis # None /\ f \in DOMAIN p.market_analysis
         THEN [p EXCEPT !.market_analysis[f] = v]
    ELSE IF p.financial_projection # None /\ f \in DOMAIN p.financial_projection
         THEN [p EXCEPT !.financial_projection[f] = v]
    ELSE p

\* every (field, value) pair that may replace a fixture's field
FieldChanges ==
    UNION { {<<f, v>> : v \in FieldValues[f]} : f \in DOMAIN FieldValues }

\* the plan p after the changes cs[1], ..., cs[n], in that order
RECURSIVE ApplyChanges(_, _, _)
ApplyChanges(p, cs, n) ==
    IF n = 0 THEN p
    ELSE Change(ApplyChanges(p, cs, n - 1), cs[n][1], cs[n][2])

\* the four score fields of a plan
Scores(p) == [f \in ScoreFields |-> p[f]]

(***************************************************************************)
(* State machine.                                                          *)
(***************************************************************************)
Init ==
    /\ \E base \in Fixtures, cs \in [1..MaxChanged -> FieldChanges] :
           plan = ApplyChanges(base, cs, MaxChanged)
    /\ evaluation_details = [e \in Evaluators |-> None]
    /\ last_call = [op |-> "none", result |-> "none", before |-> Scores(plan)]
    /\ plans = <<>>
    /\ last_detailed = <<>>
    /\ args = None
    /\ returned = None

\* mutant of Evaluate: a plan that cannot be scored is given zero scores
EvaluateDefaultZero ==
    IF EvaluateResult(plan) = "returned"
    THEN \E feasibility \in {EvaluateFeasibility(plan)},
            profitability \in {EvaluateProfitability(plan)},
            innovation \in {EvaluateInnovation(plan)} :
         \E e \in Evaluators, detailed \in BOOLEAN :
            /\ plan' = Scored(plan, feasibility.score, profitability.score,
                              innovation.score)
            /\ evaluation_details' =
                   IF detailed
                   THEN [evaluation_details EXCEPT ![e] =
                            GenerateEvaluationDetails(plan', feasibility.breakdown,
                                profitability.breakdown, innovation.breakdown)]
                   ELSE evaluation_details
            /\ last_call' = [op |-> "evaluate", result |-> "returned",
                             before |-> Scores(plan)]
            /\ UNCHANGED <<plans, last_detailed, callVars>>
    ELSE /\ plan' = [plan EXCEPT !.feasibility_score = 0, !.profitability_score = 0,
                                 !.innovation_score = 0, !.overall_score = 0]
         /\ last_call' = [op |-> "evaluate", result |-> "returned",
                          before |-> Scores(plan)]
         /\ UNCHANGED <<evaluation_details, plans, last_detailed, callVars>>

\* Some evaluator e runs evaluate(plan, detailed).  Nothing is assigned
\* before the three sub-scores are computed, so a call that raises leaves
\* the plan and the evaluator as they were.
Evaluate ==
    IF EvaluateResult(plan) = "returned"
    THEN \E feasibility \in {EvaluateFeasibility(plan)},
            profitability \in {EvaluateProfitability(plan)},
            innovation \in {EvaluateInnovation(plan)} :
         \E scored \in {Scored(plan, feasibility.score, profitability.score,
                                innovation.score)} :
         \E details \in {GenerateEvaluationDetails(scored, feasibility.breakdown,
                              profitability.breakdown, innovation.breakdown)} :
         \E e \in Evaluators, detailed \in BOOLEAN :
            /\ plan' = scored
            /\ evaluation_details' =
                   IF detailed
                   THEN [evaluation_details EXCEPT ![e] = details]
                   ELSE evaluation_details
            /\ last_call' = [op |-> "evaluate", result |-> "returned",
                             before |-> Scores(plan)]
            /\ UNCHANGED <<plans, last_detailed, callVars>>
    ELSE /\ last_call' = [op |-> "evaluate", result |-> EvaluateResult(plan),
                          before |-> Scores(plan)]
         /\ UNCHANGED <<plan, evaluation_details, plans, last_detailed, callVars>>

Next ==
    \/ Evaluate

Spec == Init /\ [][Next]_vars


(***************************************************************************)
(* What the claims are stated with.                                        *)
(***************************************************************************)
\* the last call was an evaluate that returned
Evaluated == last_call.op = "evaluate" /\ last_call.result = "returned"

\* An ordered threshold table: rows <<threshold, points>> from the highest
\* threshold down; the first row whose threshold v reaches gives the points.
RECURSIVE AtLeastTable(_, _, _)
AtLeastTable(v, rows, otherwise) ==
    IF rows = <<>> THEN otherwise
    ELSE IF v >= Head(rows)[1] THEN Pts(Head(rows)[2])
    ELSE AtLeastTable(v, Tail(rows), otherwise)

\* the same for "at most" rows, from the lowest threshold up
RECURSIVE AtMostTable(_, _, _)
AtMostTable(v, rows, otherwise) ==
    IF rows = <<>> THEN otherwise
    ELSE IF v <= Head(rows)[1] THEN Pts(Head(rows)[2])
    ELSE AtMostTable(v, Tail(rows), otherwise)

\* LTV/CAC, year3/year1 and ROI as whole numbers, rounded down: a quotient
\* reaches a whole threshold exactly when its floor does
LtvCacFloor(p) ==
    p.financial_projection.customer_ltv \div p.financial_projection.customer_cac
GrowthRatioFloor(p) ==
    p.financial_projection.year3_revenue \div p.financial_projection.year1_revenue
RoiFloor(p) ==
    (p.financial_projection.year5_revenue - p.financial_projection.initial_investment)
        \div p.financial_projection.initial_investment

\* the feasibility sum of the claim, before clamping
FeasibilitySum(p) ==
    LET m == p.market_analysis
        f == p.financial_projection
        g == AtLeastTable(m.market_growth_rate, <<<<30, 20>>, <<20, 15>>, <<10, 10>>>>, Pts(5))
        s == CASE m.market_stage = "growing"   -> Pts(15)
               [] m.market_stage = "emerging"  -> Pts(10)
               [] m.market_stage = "mature"    -> Pts(5)
               [] m.market_stage = "declining" -> 0
        b == AtMostTable(f.break_even_months, <<<<18, 15>>, <<24, 12>>, <<36, 8>>>>, Pts(3))
        l == IF f.customer_cac = 0 THEN 0
             ELSE AtLeastTable(LtvCacFloor(p),
                      <<<<5, 20>>, <<4, 17>>, <<3, 13>>, <<2, 8>>>>, Pts(3))
        r == IF f.year5_revenue > 0
             THEN AtLeastTable(RoiFloor(p),
                      <<<<5, 15>>, <<3, 12>>, <<2, 9>>, <<1, 5>>>>, Pts(2))
             ELSE 0
        t == AtLeastTable(Len(p.team_requirements), <<<<5, 10>>, <<3, 7>>>>, Pts(3))
        mit == IF Len(p.mitigation_strategies) >= Len(p.risk_factors) THEN Pts(5) ELSE Pts(2)
    IN  Pts(50) + g + s + b + l + r + t + mit

\* maximal on every feasibility criterion but, possibly, LTV/CAC
MaximalButLtvCac(p) ==
    /\ p.market_analysis.market_growth_rate >= 30
    /\ p.market_analysis.market_stage = "growing"
    /\ p.financial_projection.break_even_months <= 18
    /\ p.financial_projection.initial_investment > 0
    /\ p.financial_projection.year5_revenue > 0
    /\ RoiFloor(p) >= 5
    /\ Len(p.team_requirements) >= 5
    /\ Len(p.mitigation_strategies) >= Len(p.risk_factors)

MaximalFeasibility(p) ==
    /\ MaximalButLtvCac(p)
    /\ p.financial_projection.customer_cac > 0
    /\ LtvCacFloor(p) >= 5

(***************************************************************************)
(* C1: after evaluate has returned, the feasibility, profitability,        *)
(* innovation and overall scores of the plan each lie in [0, 100].         *)
(***************************************************************************)
C1_ScoresInRange ==
    Evaluated =>
        \A f \in ScoreFields : 0 <= plan[f] /\ plan[f] <= Pts(100)

\* an evaluated plan whose feasibility sum exceeds 100 and whose
\* feasibility score is the clamp's upper end
C1_Witness ==
    /\ Evaluated
    /\ FeasibilitySum(plan) > Pts(100)
    /\ plan.feasibility_score = Pts(100)

(***************************************************************************)
(* C2: after evaluate has returned, the feasibility score is               *)
(* min(100, max(0, 50 + g + s + b + l + r + t + m)) with the seven         *)
(* contributions read off the claim's threshold tables (a value on a       *)
(* threshold gets that threshold's points); a plan maximal on every        *)
(* criterion sums to 150 and scores 100.                                   *)
(***************************************************************************)
C2_FeasibilityFormula ==
    Evaluated =>
        /\ plan.feasibility_score = Min(Pts(100), Max(0, FeasibilitySum(plan)))
        /\ MaximalFeasibility(plan) =>
               FeasibilitySum(plan) = Pts(150) /\ plan.feasibility_score = Pts(100)

\* an evaluated plan with LTV/CAC exactly 2, below the clamp: the sum is
\* 50 + 5 + 0 + 3 + 8 + 2 + 3 + 5
C2_Witness ==
    /\ Evaluated
    /\ plan.financial_projection.customer_cac > 0
    /\ plan.financial_projection.customer_ltv = 2 * plan.financial_projection.customer_cac
    /\ plan.feasibility_score = Pts(76)


(***************************************************************************)
(* C3 as claimed: for an evaluated plan that is maximal on every           *)
(* feasibility criterion, the feasibility score of the same plan with      *)
(* customer_cac = 0 is exactly 20 points lower.                            *)
(***************************************************************************)
\* the same plan with customer_cac set to 0
WithoutCac(p) == Change(p, "customer_cac", 0)

C3_ScoreTwentyLower ==
    (Evaluated /\ MaximalFeasibility(plan)) =>
        EvaluateFeasibility(WithoutCac(plan)).score = plan.feasibility_score - Pts(20)

(***************************************************************************)
(* C3 as amended: for such a plan, evaluated with detail, the LTV/CAC      *)
(* entry of the feasibility breakdown is exactly 20 points lower for the   *)
(* CAC = 0 plan (0 instead of 20) and every other entry is the same, so    *)
(* the sums before clamping are 130 and 150; the feasibility score         *)
(* returned is 100 for both plans.                                         *)
(***************************************************************************)
C3_BreakdownTwentyLower ==
    (Evaluated /\ MaximalFeasibility(plan)) =>
        LET other == EvaluateFeasibility(WithoutCac(plan)) IN
        /\ other.score = Pts(100)
        /\ plan.feasibility_score = Pts(100)
        /\ FeasibilitySum(WithoutCac(plan)) = Pts(130)
        /\ FeasibilitySum(plan) = Pts(150)
        /\ \A e \in Evaluators :
               evaluation_details[e] # None =>
                   LET own == evaluation_details[e].breakdown.feasibility IN
                   /\ own.ltv_cac = Pts(20)
                   /\ other.breakdown.ltv_cac = own.ltv_cac - Pts(20)
                   /\ \A k \in DOMAIN own \ {"ltv_cac"} : other.breakdown[k] = own[k]

\* a maximal plan evaluated with detail
C3_Witness ==
    /\ Evaluated
    /\ MaximalFeasibility(plan)
    /\ \E e \in Evaluators : evaluation_details[e] # None

(***************************************************************************)
(* C4: for a plan with both parts present and non-negative financial       *)
(* fields, evaluate returns (no division fault), and a criterion whose     *)
(* divisor is zero (LTV/CAC for CAC = 0, year3/year1 for year 1 revenue    *)
(* 0, ROI for initial investment 0) contributes 0 points.                  *)
(***************************************************************************)
C4_NoDivisionFault ==
    (/\ last_call.op = "evaluate"
     /\ plan.market_analysis # None
     /\ plan.financial_projection # None
     /\ \A k \in DOMAIN plan.financial_projection : plan.financial_projection[k] >= 0) =>
        /\ last_call.result = "returned"
        /\ \A e \in Evaluators :
               evaluation_details[e] # None =>
                   LET f == plan.financial_projection
                       b == evaluation_details[e].breakdown
                   IN  /\ f.customer_cac = 0 => b.feasibility.ltv_cac = 0
                       /\ f.year1_revenue = 0 => b.profitability.growth_ratio = 0
                       /\ f.initial_investment = 0 => b.feasibility.roi = 0

(***************************************************************************)
(* C5: after evaluate has returned, overall_score is the sum of the three  *)
(* sub-scores weighted by the CATEGORY_WEIGHTS profile of the plan's       *)
(* category, or by the "Other" profile when the table has no entry for     *)
(* it; every PlanCategory value has an entry.                              *)
(***************************************************************************)
C5_OverallIsWeightedSum ==
    /\ PlanCategory \subseteq DOMAIN CATEGORY_WEIGHTS
    /\ Evaluated =>
           LET w == IF plan.category \in DOMAIN CATEGORY_WEIGHTS
                    THEN CATEGORY_WEIGHTS[plan.category]
                    ELSE CATEGORY_WEIGHTS["Other"]
           IN  plan.overall_score * 100 =
                   plan.feasibility_score * w.feasibility
                   + plan.profitability_score * w.profitability
                   + plan.innovation_score * w.innovation

\* an evaluated CleanTech plan with three different sub-scores
C5_Witness ==
    /\ Evaluated
    /\ plan.category = "CleanTech"
    /\ plan.feasibility_score # plan.profitability_score
    /\ plan.profitability_score # plan.innovation_score
    /\ plan.feasibility_score # plan.innovation_score


(***************************************************************************)
(* C6: after evaluate has returned, the profitability score is             *)
(* min(100, max(0, 40 + y + p + q + z + c)) with the five contributions    *)
(* read off the claim's threshold tables; q is 0 when year 1 revenue is 0. *)
(***************************************************************************)
\* market_size * growth_rate / 100 as a whole number, rounded down
GrowthPotentialFloor(p) ==
    (p.market_analysis.market_size * p.market_analysis.market_growth_rate) \div 100

\* the profitability sum of the claim, before clamping
ProfitabilitySum(p) ==
    LET m == p.market_analysis
        f == p.financial_projection
        y == AtLeastTable(f.year5_revenue,
                 <<<<100000000, 25>>, <<50000000, 22>>, <<10000000, 18>>, <<1000000, 12>>>>,
                 Pts(5))
        pm == AtLeastTable(f.profit_margin_year3,
                 <<<<40, 20>>, <<30, 17>>, <<20, 13>>, <<10, 8>>>>, Pts(3))
        q == IF f.year1_revenue = 0 THEN 0
             ELSE AtLeastTable(GrowthRatioFloor(p),
                      <<<<20, 20>>, <<10, 17>>, <<5, 13>>, <<2, 8>>>>, Pts(3))
        z == AtLeastTable(m.market_size,
                 <<<<500, 20>>, <<100, 17>>, <<50, 13>>, <<10, 8>>>>, Pts(3))
        c == AtLeastTable(GrowthPotentialFloor(p),
                 <<<<50, 15>>, <<20, 12>>, <<10, 8>>>>, Pts(3))
    IN  Pts(40) + y + pm + q + z + c

C6_ProfitabilityFormula ==
    Evaluated =>
        plan.profitability_score = Min(Pts(100), Max(0, ProfitabilitySum(plan)))

\* an evaluated plan with market_size * growth_rate / 100 exactly 50, below
\* the clamp: the sum is 40 + 5 + 3 + 3 + 20 + 15
C6_Witness ==
    /\ Evaluated
    /\ plan.market_analysis.market_size * plan.market_analysis.market_growth_rate = 5000
    /\ plan.profitability_score = Pts(86)

(***************************************************************************)
(* C7: after evaluate has returned, the innovation score is                *)
(* min(100, max(0, 50 + k + s + p + w + f + r)) with the contributions     *)
(* read off the claim's tables; w = min(10, 2.5 n), n being the number of  *)
(* listed keywords that occur, ignoring case, in solution followed by      *)
(* value proposition, each keyword counted once.                           *)
(***************************************************************************)
CapitalLetters ==
    <<"A", "B", "C", "D", "E", "F", "G", "H", "I", "J", "K", "L", "M",
      "N", "O", "P", "Q", "R", "S", "T", "U", "V", "W", "X", "Y", "Z">>
SmallLetters ==
    <<"a", "b", "c", "d", "e", "f", "g", "h", "i", "j", "k", "l", "m",
      "n", "o", "p", "q", "r", "s", "t", "u", "v", "w", "x", "y", "z">>

\* a capital letter with its small form, in either order
CasePairs ==
    {<<CapitalLetters[n], SmallLetters[n]>> : n \in 1..Len(CapitalLetters)}
        \cup {<<SmallLetters[n], CapitalLetters[n]>> : n \in 1..Len(CapitalLetters)}

\* the same character, or the capital and the small form of one letter
SameIgnoringCase(a, b) == a = b \/ <<a, b>> \in CasePairs

\* kw occurs in text, ignoring case
Occurs(kw, text) ==
    \E start \in 0..(Len(text) - Len(kw)) :
        \A j \in 1..Len(kw) : SameIgnoringCase(text[start + j], kw[j])

\* the innovation sum of the claim, before clamping
InnovationSum(p) ==
    LET m == p.market_analysis
        text == p.solution \o p.value_proposition
        n == Cardinality({kw \in {innovation_keywords[x] : x \in DOMAIN innovation_keywords} :
                              Occurs(kw, text)})
        k == IF p.category \in {"AI/ML", "CleanTech", "FinTech", "HealthTech"}
             THEN Pts(20) ELSE Pts(10)
        s == CASE m.market_stage = "emerging"  -> Pts(20)
               [] m.market_stage = "growing"   -> Pts(15)
               [] m.market_stage = "mature"    -> Pts(5)
               [] m.market_stage = "declining" -> 0
        pr == AtLeastTable(Len(p.problem_statement), <<<<200, 15>>, <<100, 10>>>>, Pts(5))
        w == Min(Pts(10), (Pts(5) * n) \div 2)
        f == AtLeastTable(Len(m.key_success_factors), <<<<4, 15>>, <<3, 10>>>>, Pts(5))
        r == AtLeastTable(Len(p.reasoning), <<<<200, 15>>, <<100, 10>>, <<50, 5>>>>, 0)
    IN  Pts(50) + k + s + pr + w + f + r

SumsToOne(w) ==
    LET sum == (w.feasibility + w.profitability + w.innovation) * 10
    IN  sum - 1000 < 1 /\ 1000 - sum < 1

C8_WeightsSumToOne ==
    /\ \A c \in DOMAIN CATEGORY_WEIGHTS : SumsToOne(CATEGORY_WEIGHTS[c])
    /\ SumsToOne(WeightsGet(plan.category))

\* evaluate has applied the Marketplace profile to sub-scores that differ,
\* and the overall score lies strictly between the lowest and the highest
C8_Witness ==
    /\ Evaluated
    /\ plan.category = "Marketplace"
    /\ \E lo, hi \in {plan.feasibility_score, plan.profitability_score,
                      plan.innovation_score} :
           lo < plan.overall_score /\ plan.overall_score < hi

(***************************************************************************)
(* C9: an evaluate call changes no field of the plan other than            *)
(* feasibility_score, profitability_score, innovation_score and            *)
(* overall_score, and leaves the plan with the same fields.                *)
(***************************************************************************)
C9_OnlyScoresChange ==
    [][/\ DOMAIN plan' = DOMAIN plan
       /\ \A f \in DOMAIN plan \ ScoreFields : plan'[f] = plan[f]]_vars

\* the high-score fixture, evaluated: its scores have changed and nothing
\* else has
C9_Witness ==
    /\ Evaluated
    /\ plan # high_score_plan
    /\ [plan EXCEPT !.feasibility_score = 0, !.profitability_score = 0,
                    !.innovation_score = 0, !.overall_score = 0] = high_score_plan

(***************************************************************************)
(* C10: after evaluate has returned, the four scores are those of a single *)
(* evaluation of the plan, whatever the score fields held before the call: *)
(* the scores are overwritten, never added to, and evaluating again gives  *)
(* the same scores.                                                        *)
(***************************************************************************)
\* the plan as its constructor leaves the score fields
Unscored(p) ==
    [p EXCEPT !.feasibility_score = 0, !.profitability_score = 0,
              !.innovation_score = 0, !.overall_score = 0]

\* the scores one evaluation gives a plan that has never been evaluated
SingleEvaluation(p) ==
    Scores(Scored(Unscored(p),
                  EvaluateFeasibility(Unscored(p)).score,
                  EvaluateProfitability(Unscored(p)).score,
                  EvaluateInnovation(Unscored(p)).score))

HeldPlans ==
    <<high_score_plan, low_score_plan, sample_business_plan,
      Change(low_score_plan, "initial_investment", 0)>>

InitHeld ==
    /\ plans = HeldPlans
    /\ evaluation_details = [e \in Evaluators |-> None]
    /\ last_detailed = [e \in Evaluators |-> None]
    /\ last_call = [op |-> "none", result |-> "none"]
    /\ plan = None
    /\ args = None
    /\ returned = None

\* evaluator e runs evaluate(plans[i], detailed)
EvaluateHeld ==
    \E i \in DOMAIN plans, e \in Evaluators, detailed \in BOOLEAN :
        /\ last_detailed' = IF detailed
                            THEN [last_detailed EXCEPT ![e] =
                                     [plan |-> i, result |-> EvaluateResult(plans[i])]]
                            ELSE last_detailed
        /\ last_call' = [op |-> "evaluate", result |-> EvaluateResult(plans[i]),
                         plan |-> i, evaluator |-> e, detailed |-> detailed]
        /\ IF EvaluateResult(plans[i]) = "returned"
           THEN \E feasibility \in {EvaluateFeasibility(plans[i])},
                   profitability \in {EvaluateProfitability(plans[i])},
                   innovation \in {EvaluateInnovation(plans[i])} :
                \E scored \in {Scored(plans[i], feasibility.score, profitability.score,
                                       innovation.score)} :
                   /\ plans' = [plans EXCEPT ![i] = scored]
                   /\ evaluation_details' =
                          IF detailed
                          THEN [evaluation_details EXCEPT ![e] =
                                   GenerateEvaluationDetails(scored,
                                       feasibility.breakdown, profitability.breakdown,
                                       innovation.breakdown)]
                          ELSE evaluation_details
           ELSE UNCHANGED <<plans, evaluation_details>>
        /\ UNCHANGED <<plan, callVars>>

NextHeld ==
    \/ EvaluateHeld

SpecHeld == InitHeld /\ [][NextHeld]_vars

(***************************************************************************)
(* C11: after any sequence of evaluate calls, an evaluator's               *)
(* evaluation_details is None if it has had no call with detailed=True,    *)
(* and otherwise is the detail of its most recent such call: the score is  *)
(* the overall_score of the plan of that call and the breakdown is that    *)
(* plan's.                                                                 *)
(***************************************************************************)
\* the breakdown evaluate computes for a plan
BreakdownOf(p) ==
    [feasibility   |-> EvaluateFeasibility(p).breakdown,
     profitability |-> EvaluateProfitability(p).breakdown,
     innovation    |-> EvaluateInnovation(p).breakdown]

C11_SlotHoldsLatestDetailed ==
    \A e \in Evaluators :
        IF last_detailed[e] = None
        THEN evaluation_details[e] = None
        ELSE LET p == plans[last_detailed[e].plan] IN
             /\ p.market_analysis # None
             /\ p.financial_projection # None
             /\ evaluation_details[e] # None
             /\ evaluation_details[e].score = p.overall_score
             /\ evaluation_details[e].breakdown = BreakdownOf(p)



(***************************************************************************)
(* Text similarity.  _calculate_similarity is                              *)
(* SequenceMatcher(None, text1.lower(), text2.lower()).ratio() of the      *)
(* standard library: no junk function, autojunk on.  Positions are counted *)
(* from 1 and a window alo..ahi-1, blo..bhi-1 excludes its upper ends.  A  *)
(* ratio is kept exact, as the pair <<numerator, denominator>>.            *)
(***************************************************************************)
\* the characters of a text
Chars(s) == {s[i] : i \in DOMAIN s}

\* how often c occurs in s
Occurrences(c, s) == Cardinality({i \in DOMAIN s : s[i] = c})

\* __chain_b: in a second text of 200 characters or more, a character that
\* makes up more than 1% of it (plus one) is "popular" and starts no match
Popular(b) ==
    IF Len(b) >= 200
    THEN {c \in Chars(b) : Occurrences(c, b) > Len(b) \div 100 + 1}
    ELSE {}

\* the length of the run of equal, not popular characters that starts at
\* a[i] and b[j] and stays inside the window: the first offset at which the
\* run stops
RunFrom(a, b, i, j, ahi, bhi, popular) ==
    LET limit == Min(ahi - i, bhi - j)
        Stops(k) == k = limit \/ a[i + k] # b[j + k] \/ a[i + k] \in popular
    IN  IF limit <= 0 \/ a[i] # b[j] THEN 0
        ELSE CHOOSE k \in 0..limit :
                 Stops(k) /\ \A before \in 0..(k - 1) : ~Stops(before)

\* of two candidate matches, the later one only when it is longer
Longer(earlier, later) == IF later[3] > earlier[3] THEN later ELSE earlier

\* find_longest_match, the loops over i and j: the longest run in the
\* window and, among the longest, the one that starts earliest in a, then
\* earliest in b.  The starts are numbered first..last, row by row.
RECURSIVE BestRun(_, _, _, _, _, _, _, _, _)
BestRun(a, b, alo, ahi, blo, bhi, popular, first, last) ==
    IF first = last
    THEN <<alo + (first \div (bhi - blo)), blo + (first % (bhi - blo)),
           RunFrom(a, b, alo + (first \div (bhi - blo)), blo + (first % (bhi - blo)),
                   ahi, bhi, popular)>>
    ELSE Longer(BestRun(a, b, alo, ahi, blo, bhi, popular,
                        first, (first + last) \div 2),
                BestRun(a, b, alo, ahi, blo, bhi, popular,
                        ((first + last) \div 2) + 1, last))

\* find_longest_match: the best is extended by the equal characters before
\* it ...
ExtendBack(a, b, alo, blo, m) ==
    LET limit == Min(m[1] - alo, m[2] - blo)
        Stops(k) == k = limit \/ a[m[1] - 1 - k] # b[m[2] - 1 - k]
        more == CHOOSE k \in 0..limit :
                    Stops(k) /\ \A before \in 0..(k - 1) : ~Stops(before)
    IN  <<m[1] - more, m[2] - more, m[3] + more>>

\* ... and by the equal characters after it (no character is junk, so the
\* two further loops over junk characters do nothing)
ExtendForward(a, b, ahi, bhi, m) ==
    LET limit == Min(ahi - (m[1] + m[3]), bhi - (m[2] + m[3]))
        Stops(k) == k = limit \/ a[m[1] + m[3] + k] # b[m[2] + m[3] + k]
        more == CHOOSE k \in 0..limit :
                    Stops(k) /\ \A before \in 0..(k - 1) : ~Stops(before)
    IN  <<m[1], m[2], m[3] + more>>

\* find_longest_match(alo, ahi, blo, bhi): <<i, j, size>>
FindLongestMatch(a, b, alo, ahi, blo, bhi, popular) ==
    ExtendForward(a, b, ahi, bhi,
        ExtendBack(a, b, alo, blo,
            IF alo >= ahi \/ blo >= bhi THEN <<alo, blo, 0>>
            ELSE BestRun(a, b, alo, ahi, blo, bhi, popular,
                         0, (ahi - alo) * (bhi - blo) - 1)))

\* get_matching_blocks: the total size of the blocks found in a window, the
\* longest match first, then what lies before it and what lies after it
RECURSIVE MatchedIn(_, _, _, _, _, _, _)
MatchedIn(a, b, alo, ahi, blo, bhi, popular) ==
    LET m == FindLongestMatch(a, b, alo, ahi, blo, bhi, popular) IN
    IF m[3] = 0 THEN 0
    ELSE m[3]
         + (IF alo < m[1] /\ blo < m[2]
            THEN MatchedIn(a, b, alo, m[1], blo, m[2], popular) ELSE 0)
         + (IF m[1] + m[3] < ahi /\ m[2] + m[3] < bhi
            THEN MatchedIn(a, b, m[1] + m[3], ahi, m[2] + m[3], bhi, popular) ELSE 0)

\* SequenceMatcher(None, a, b).ratio(): 2.0 * matches / length, 1.0 for two
\* empty texts
Ratio(a, b) ==
    IF Len(a) + Len(b) = 0 THEN <<1, 1>>
    ELSE <<2 * MatchedIn(a, b, 1, Len(a) + 1, 1, Len(b) + 1, Popular(b)),
           Len(a) + Len(b)>>

\* mutant of CalculateSimilarity: the texts are compared as they are
CalculateSimilarityCaseSensitive(text1, text2) == Ratio(text1, text2)

CalculateSimilarity(text1, text2) == Ratio(Lower(text1), Lower(text2))

\* comparisons of a ratio r with the number n / d
RatioAtLeast(r, n, d) == r[1] * d >= n * r[2]
RatioAbove(r, n, d) == r[1] * d > n * r[2]


(***************************************************************************)
(* Calls of _calculate_similarity.  The two texts are drawn from the texts *)
(* of at most MaxTextLen characters over a small alphabet with one letter  *)
(* in both cases.                                                          *)
(***************************************************************************)
MaxTextLen == 3     \* longest text drawn

Alphabet == {"a", "b", "c", "A"}
Texts == UNION {[1..n -> Alphabet] : n \in 0..MaxTextLen}

\* no evaluator and no plan takes part
NoEvaluator ==
    /\ plan = None
    /\ evaluation_details = <<>>
    /\ plans = <<>>
    /\ last_detailed = <<>>

InitSimilarity ==
    /\ \E text1 \in Texts, text2 \in Texts : args = [text1 |-> text1, text2 |-> text2]
    /\ returned = None
    /\ last_call = [op |-> "none", result |-> "none"]
    /\ NoEvaluator

CallCalculateSimilarity ==
    /\ last_call.op = "none"
    /\ returned' = CalculateSimilarity(args.text1, args.text2)
    /\ last_call' = [op |-> "_calculate_similarity", result |-> "returned"]
    /\ UNCHANGED <<args, evaluatorVars>>

NextSimilarity ==
    \/ CallCalculateSimilarity

SpecSimilarity == InitSimilarity /\ [][NextSimilarity]_vars


\* _calculate_similarity has been called and has returned
SimilarityReturned == last_call.op = "_calculate_similarity"

\* two texts that differ at most in the case of their letters
SameAfterFolding(s, t) ==
    /\ Len(s) = Len(t)
    /\ \A i \in 1..Len(s) : SameIgnoringCase(s[i], t[i])

(***************************************************************************)
(* C16: similarity(a, b) is a ratio in [0, 1]; it is 1.0 exactly when a    *)
(* and b are identical after case folding, and so similarity(s, s) = 1.0.  *)
(***************************************************************************)
C16_SimilarityIsRatio ==
    SimilarityReturned =>
        /\ returned[2] > 0
        /\ 0 <= returned[1] /\ returned[1] <= returned[2]
        /\ returned[1] = returned[2] <=> SameAfterFolding(args.text1, args.text2)
        /\ CalculateSimilarity(args.text1, args.text1)[1] =
               CalculateSimilarity(args.text1, args.text1)[2]

\* two different texts, identical after folding, with similarity 1.0
C16_Witness ==
    /\ SimilarityReturned
    /\ args.text1 # args.text2
    /\ Len(args.text1) > 1
    /\ returned[1] = returned[2]

(***************************************************************************)
(* C17: similarity is symmetric: the ratio computed for (a, b) equals the  *)
(* ratio computed for (b, a).                                              *)
(***************************************************************************)
C17_SimilaritySymmetric ==
    SimilarityReturned =>
        returned = CalculateSimilarity(args.text2, args.text1)



(***************************************************************************)
(* Duplicate checks of the generator.  A prior plan is read for its title, *)
(* tags and solution only.  Tags are one-character texts.                  *)
(***************************************************************************)
MaxTags == 5        \* tags a plan can carry
MaxHistory == 2     \* longest previous_plans list drawn

PriorPlan(title, tags, solution) ==
    [title |-> title, tags |-> tags, solution |-> solution]

TagNames == <<"p", "q", "r", "s", "t", "u", "v", "w">>
Tag(k) == <<TagNames[k]>>

\* the tags first..last, in order
TagRange(first, last) == [k \in 1..(last - first + 1) |-> Tag(first + k - 1)]

\* tag lists: none, every run of consecutive tags, and one tag twice
TagLists ==
    {TagRange(first, last) : first \in 1..MaxTags, last \in 0..MaxTags}
        \cup {<<Tag(1), Tag(1)>>}

\* titles and themes: none, and texts that are equal, equal but for case,
\* half alike and unlike
Titles ==
    { <<>>, <<"a">>, <<"a", "b">>, <<"a", "c">>, <<"A", "B">>, <<"a", "b", "c">> }

\* the prior plans histories are made of
PriorPlans ==
    { PriorPlan(<<"a", "b">>, <<>>, <<>>),
      PriorPlan(<<"c", "c">>, TagRange(1, 4), <<"x", "x">>),
      PriorPlan(<<"a", "b", "c">>, <<>>, <<"x", "x">>),
      PriorPlan(<<>>, TagRange(2, 3), <<>>),
      PriorPlan(<<"c">>, TagRange(1, 2), <<"a", "b", "c">>) }

Histories == UNION {[1..n -> PriorPlans] : n \in 0..MaxHistory}

\* thresholds: the default 0.7, and 0.5
Thresholds == {<<7, 10>>, <<1, 2>>}

\* set(tags)
SetOf(list) == {list[k] : k \in DOMAIN list}

\* tag_overlap = len(set(tags) & set(plan.tags)) / max(len(set(tags)), 1);
\* tag_overlap >= 0.8
TagOverlapHigh(tags, plan_tags) ==
    Cardinality(SetOf(tags) \cap SetOf(plan_tags)) * 10
        >= 8 * Max(Cardinality(SetOf(tags)), 1)

\* _is_duplicate: the loop returns True at the first plan that matches
IsDuplicate(title, tags, previous_plans, threshold) ==
    IF Len(previous_plans) = 0 THEN FALSE
    ELSE \E k \in DOMAIN previous_plans :
             \/ RatioAtLeast(CalculateSimilarity(title, previous_plans[k].title),
                             threshold[1], threshold[2])
             \/ TagOverlapHigh(tags, previous_plans[k].tags)

InitIsDuplicate ==
    /\ \E title \in Titles, tags \in TagLists, previous_plans \in Histories,
          threshold \in Thresholds :
           args = [title |-> title, tags |-> tags,
                   previous_plans |-> previous_plans, threshold |-> threshold]
    /\ returned = None
    /\ last_call = [op |-> "none", result |-> "none"]
    /\ NoEvaluator

CallIsDuplicate ==
    /\ last_call.op = "none"
    /\ returned' = IsDuplicate(args.title, args.tags, args.previous_plans,
                               args.threshold)
    /\ last_call' = [op |-> "_is_duplicate", result |-> "returned"]
    /\ UNCHANGED <<args, evaluatorVars>>

NextIsDuplicate ==
    \/ CallIsDuplicate

SpecIsDuplicate == InitIsDuplicate /\ [][NextIsDuplicate]_vars

(***************************************************************************)
(* C12: is_duplicate returns true exactly when some prior plan has title   *)
(* similarity >= threshold with the candidate title, or a tag overlap      *)
(* |A n B| / max(|A u B|, 1) >= 0.8 with the candidate tags (A the         *)
(* candidate's tag set, B the prior plan's); it returns false for an empty *)
(* history.                                                                *)
(***************************************************************************)
\* |A n B| / max(|A u B|, 1) >= 0.8
SetOverlapHigh(A, B) ==
    Cardinality(A \cap B) * 10 >= 8 * Max(Cardinality(A \cup B), 1)

C12_DuplicateRule ==
    last_call.op = "_is_duplicate" =>
        /\ returned <=>
               \E k \in DOMAIN args.previous_plans :
                   LET prior == args.previous_plans[k] IN
                   \/ RatioAtLeast(CalculateSimilarity(args.title, prior.title),
                                   args.threshold[1], args.threshold[2])
                   \/ SetOverlapHigh(SetOf(args.tags), SetOf(prior.tags))
        /\ args.previous_plans = <<>> => ~returned



(***************************************************************************)
(* Calls of _avoid_near_duplicates.  Besides the short themes and          *)
(* histories there is one long case: a theme of 202 characters and a prior *)
(* plan whose solution starts with 200 of them and goes on for 400 more.   *)
(***************************************************************************)
SolutionChars == 200    \* plan.solution[:200]

\* the text of n characters c
Repeated(c, n) == [i \in 1..n |-> c]

\* s[:n]
Prefix(s, n) == SubSeq(s, 1, Min(n, Len(s)))

\* ' '.join(list)
RECURSIVE Join(_)
Join(list) ==
    IF Len(list) = 0 THEN <<>>
    ELSE IF Len(list) = 1 THEN list[1]
    ELSE list[1] \o <<" ">> \o Join(Tail(list))

\* f"{plan.title} {' '.join(plan.tags)} {plan.solution[:200]}"
CombinedText(prior) ==
    prior.title \o <<" ">> \o Join(prior.tags) \o <<" ">>
        \o Prefix(prior.solution, SolutionChars)

\* An Optional[List[BusinessPlan]] is None or holds a list.
ListOf(list) == [list |-> list]

\* if not previous_plans: None or an empty list
NoPreviousPlans(previous_plans) ==
    previous_plans = None \/ previous_plans.list = <<>>

\* mutant of AvoidNearDuplicates: a similarity of 0.6 is avoided too
AvoidNearDuplicatesInclusive(theme, previous_plans) ==
    IF NoPreviousPlans(previous_plans) THEN TRUE
    ELSE ~\E k \in DOMAIN previous_plans.list :
              RatioAtLeast(CalculateSimilarity(theme, CombinedText(previous_plans.list[k])),
                           6, 10)

\* _avoid_near_duplicates: True when the theme is safe
AvoidNearDuplicates(theme, previous_plans) ==
    IF NoPreviousPlans(previous_plans) THEN TRUE
    ELSE ~\E k \in DOMAIN previous_plans.list :
              RatioAbove(CalculateSimilarity(theme, CombinedText(previous_plans.list[k])),
                         6, 10)

LongTheme == <<" ", " ">> \o Repeated("x", SolutionChars)
LongPlan == PriorPlan(<<>>, <<>>, Repeated("x", SolutionChars) \o Repeated("y", 2 * SolutionChars))

InitAvoidNearDuplicates ==
    /\ \/ \E theme \in Titles,
             previous_plans \in {ListOf(h) : h \in Histories} \cup {None} :
              args = [theme |-> theme, previous_plans |-> previous_plans]
       \/ args = [theme |-> LongTheme, previous_plans |-> ListOf(<<LongPlan>>)]
    /\ returned = None
    /\ last_call = [op |-> "none", result |-> "none"]
    /\ NoEvaluator

CallAvoidNearDuplicates ==
    /\ last_call.op = "none"
    /\ returned' = AvoidNearDuplicates(args.theme, args.previous_plans)
    /\ last_call' = [op |-> "_avoid_near_duplicates", result |-> "returned"]
    /\ UNCHANGED <<args, evaluatorVars>>

NextAvoidNearDuplicates ==
    \/ CallAvoidNearDuplicates

SpecAvoidNearDuplicates == InitAvoidNearDuplicates /\ [][NextAvoidNearDuplicates]_vars

(***************************************************************************)
(* C13: the theme check rejects a theme exactly when, for some prior plan, *)
(* the similarity between the theme and the text made of the plan's title, *)
(* its tags and the first 200 characters of its solution is strictly       *)
(* greater than 0.6; with an empty or missing history it accepts.          *)
(***************************************************************************)
\* the text a theme is compared with, character by character: the title, a
\* space, the tags with a space between them, a space, and at most 200
\* characters of the solution
RECURSIVE Spaced(_)
Spaced(tags) ==
    IF tags = <<>> THEN <<>> ELSE <<" ">> \o Head(tags) \o Spaced(Tail(tags))

ThemeComparedWith(prior) ==
    LET joined == IF prior.tags = <<>> THEN <<>> ELSE Tail(Spaced(prior.tags))
        start  == prior.title \o <<" ">> \o joined \o <<" ">>
        kept   == IF Len(prior.solution) > 200 THEN 200 ELSE Len(prior.solution)
    IN  [i \in 1..(Len(start) + kept) |->
            IF i <= Len(start) THEN start[i] ELSE prior.solution[i - Len(start)]]

\* the similarity is strictly greater than 0.6 = 3/5
AboveSixTenths(r) == 5 * r[1] > 3 * r[2]

TRENDS ==
    ("AI_ML" :> <<
        <<"A", "I", "U+30B3", "U+30FC", "U+30C1", "U+30F3", "U+30B0",
          "U+30D1", "U+30FC", "U+30BD", "U+30CA", "U+30E9", "U+30A4",
          "U+30BC", "U+30FC", "U+30B7", "U+30E7", "U+30F3">>,
        <<"U+751F", "U+6210", "A", "I", "U+30B3", "U+30F3", "U+30C6",
          "U+30F3", "U+30C4", "U+6700", "U+9069", "U+5316">>,
        <<"A", "I", "U+30C7", "U+30FC", "U+30BF", "U+30D7", "U+30E9",
          "U+30A4", "U+30D0", "U+30B7", "U+30FC", "U+30B3", "U+30F3",
          "U+30D7", "U+30E9", "U+30A4", "U+30A2", "U+30F3",
          "U+30B9">>,
        <<"A", "I", "U+30B3", "U+30FC", "U+30C9", "U+30EC", "U+30D3",
          "U+30E5", "U+30FC", "U+81EA", "U+52D5", "U+5316">>,
        <<"A", "I", "U+30DE", "U+30EB", "U+30C1", "U+30E2", "U+30FC",
          "U+30C0", "U+30EB", "U+5206", "U+6790">> >>)
    @@ ("FINTECH" :> <<
        <<"U+4E2D", "U+5C0F", "U+4F01", "U+696D", "U+5411", "U+3051",
          "U+81EA", "U+52D5", "U+8CA1", "U+52D9", "U+7BA1",
          "U+7406">>,
        <<"U+30AF", "U+30ED", "U+30B9", "U+30DC", "U+30FC", "U+30C0",
          "U+30FC", "U+6C7A", "U+6E08", "U+6700", "U+9069",
          "U+5316">>,
        <<"D", "e", "F", "i", "U+30EC", "U+30F3", "U+30C7", "U+30A3",
          "U+30F3", "U+30B0", "U+30D7", "U+30E9", "U+30C3", "U+30C8",
          "U+30D5", "U+30A9", "U+30FC", "U+30E0">>,
        <<"E", "S", "G", "U+6295", "U+8CC7", "U+30A2", "U+30C9",
          "U+30D0", "U+30A4", "U+30B6", "U+30EA", "U+30FC">>,
        <<"U+30A4", "U+30F3", "U+30DC", "U+30A4", "U+30B9", "U+30D5",
          "U+30A1", "U+30A4", "U+30CA", "U+30F3", "U+30B9", "U+81EA",
          "U+52D5", "U+5316">> >>)
    @@ ("HEALTHTECH" :> <<
        <<"U+9060", "U+9694", "U+533B", "U+7642", "U+30E2", "U+30CB",
          "U+30BF", "U+30EA", "U+30F3", "U+30B0">>,
        <<"U+30E1", "U+30F3", "U+30BF", "U+30EB", "U+30D8", "U+30EB",
          "U+30B9", "A", "I", "U+652F", "U+63F4">>,
        <<"U+30D1", "U+30FC", "U+30BD", "U+30CA", "U+30E9", "U+30A4",
          "U+30BA", "U+30C9", "U+6804", "U+990A", "U+7BA1",
          "U+7406">>,
        <<"U+30AF", "U+30EA", "U+30CB", "U+30C3", "U+30AF", "U+904B",
          "U+55B6", "U+6700", "U+9069", "U+5316", "S", "a", "a",
          "S">>,
        <<"U+85AC", "U+5264", "U+51E6", "U+65B9", "U+652F", "U+63F4",
          "A", "I">> >>)
    @@ ("SAAS" :> <<
        <<"U+4E2D", "U+5C0F", "U+4F01", "U+696D", "U+5411", "U+3051",
          "U+4EBA", "U+6750", "U+7BA1", "U+7406", "U+6700", "U+9069",
          "U+5316">>,
        <<"U+30D7", "U+30ED", "U+30B8", "U+30A7", "U+30AF", "U+30C8",
          "U+7BA1", "U+7406", "A", "I", "U+81EA", "U+52D5",
          "U+5316">>,
        <<"U+9867", "U+5BA2", "U+30B5", "U+30DD", "U+30FC", "U+30C8",
          "U+81EA", "U+52D5", "U+5316", "U+30D7", "U+30E9", "U+30C3",
          "U+30C8", "U+30D5", "U+30A9", "U+30FC", "U+30E0">>,
        <<"U+30B5", "U+30D6", "U+30B9", "U+30AF", "U+30EA", "U+30D7",
          "U+30B7", "U+30E7", "U+30F3", "U+53CE", "U+76CA", "U+6700",
          "U+9069", "U+5316">>,
        <<"U+5728", "U+5EAB", "U+7BA1", "U+7406", "U+4E88", "U+6E2C",
          "A", "I">> >>)
    @@ ("CLEANTECH" :> <<
        <<"U+4F01", "U+696D", "U+30AB", "U+30FC", "U+30DC", "U+30F3",
          "U+30D5", "U+30C3", "U+30C8", "U+30D7", "U+30EA", "U+30F3",
          "U+30C8", "U+8FFD", "U+8DE1">>,
        <<"U+518D", "U+751F", "U+53EF", "U+80FD", "U+30A8", "U+30CD",
          "U+30EB", "U+30AE", "U+30FC", "U+53D6", "U+5F15", "U+30D7",
          "U+30E9", "U+30C3", "U+30C8", "U+30D5", "U+30A9", "U+30FC",
          "U+30E0">>,
        <<"U+30B9", "U+30DE", "U+30FC", "U+30C8", "U+30B0", "U+30EA",
          "U+30C3", "U+30C9", "U+6700", "U+9069", "U+5316">>,
        <<"U+5EC3", "U+68C4", "U+7269", "U+7BA1", "U+7406", "U+30EA",
          "U+30B5", "U+30A4", "U+30AF", "U+30EB", "A", "I">>,
        <<"U+96FB", "U+529B", "U+6D88", "U+8CBB", "U+6700", "U+9069",
          "U+5316", "S", "a", "a", "S">> >>)

\* list(self.TRENDS.keys()), in the order of the dictionary
TrendKeys == <<"AI_ML", "FINTECH", "HEALTHTECH", "SAAS", "CLEANTECH">>

BUSINESS_MODELS ==
    << <<"U+30B5", "U+30D6", "U+30B9", "U+30AF", "U+30EA", "U+30D7",
         "U+30B7", "U+30E7", "U+30F3", "U+30E2", "U+30C7",
         "U+30EB">>,
       <<"U+30D5", "U+30EA", "U+30FC", "U+30DF", "U+30A2", "U+30E0",
         "U+30E2", "U+30C7", "U+30EB">>,
       <<"U+30C8", "U+30E9", "U+30F3", "U+30B6", "U+30AF", "U+30B7",
         "U+30E7", "U+30F3", "U+624B", "U+6570", "U+6599", "U+30E2",
         "U+30C7", "U+30EB">>,
       <<"U+30DE", "U+30FC", "U+30B1", "U+30C3", "U+30C8", "U+30D7",
         "U+30EC", "U+30A4", "U+30B9", "U+30E2", "U+30C7",
         "U+30EB">>,
       <<"U+30A8", "U+30F3", "U+30BF", "U+30FC", "U+30D7", "U+30E9",
         "U+30A4", "U+30BA", "U+30E9", "U+30A4", "U+30BB", "U+30F3",
         "U+30B9", "U+30E2", "U+30C7", "U+30EB">>,
       <<"U+5229", "U+7528", "U+91CF", "U+30D9", "U+30FC", "U+30B9",
         "U+8AB2", "U+91D1", "U+30E2", "U+30C7", "U+30EB">>,
       <<"U+30CF", "U+30A4", "U+30D6", "U+30EA", "U+30C3", "U+30C9",
         "U+30E2", "U+30C7", "U+30EB">> >>

TARGET_MARKETS ==
    << <<"U+4E2D", "U+5C0F", "U+4F01", "U+696D", "U+FF08", "U+5F93",
         "U+696D", "U+54E1", "1", "0", "-", "1", "0", "0", "U+4EBA",
         "U+FF09">>,
       <<"U+5927", "U+4F01", "U+696D", "U+FF08", "U+5F93", "U+696D",
         "U+54E1", "1", "0", "0", "0", "U+4EBA", "U+4EE5", "U+4E0A",
         "U+FF09">>,
       <<"U+30B9", "U+30BF", "U+30FC", "U+30C8", "U+30A2", "U+30C3",
         "U+30D7", "/", "V", "C", "U+6295", "U+8CC7", "U+4F01",
         "U+696D">>,
       <<"U+30D5", "U+30EA", "U+30FC", "U+30E9", "U+30F3", "U+30B9",
         "/", "U+500B", "U+4EBA", "U+4E8B", "U+696D", "U+4E3B">>,
       <<"U+7279", "U+5B9A", "U+696D", "U+7A2E", "U+5782", "U+76F4",
         "U+5E02", "U+5834">>,
       <<"U+6D88", "U+8CBB", "U+8005", "U+4E00", "U+822C", "U+FF08",
         "B", "2", "C", "U+FF09">> >>

\* random.choice(list): any element of the list
Choice(list) == {list[i] : i \in DOMAIN list}

\* max_attempts, the default of _select_theme's parameter
max_attempts == 10

\* the prior plan of test_theme_selection_with_duplicates
existing_plan ==
    PriorPlan(
        <<"A", "I", "U+30C7", "U+30FC", "U+30BF", "U+30D7", "U+30E9",
          "U+30A4", "U+30D0", "U+30B7", "U+30FC", "U+30B3", "U+30F3",
          "U+30D7", "U+30E9", "U+30A4", "U+30A2", "U+30F3", "U+30B9">>,
        << <<"a", "i">>,
           <<"U+30C7", "U+30FC", "U+30BF", "U+30D7", "U+30E9", "U+30A4",
             "U+30D0", "U+30B7", "U+30FC">> >>,
        <<"A", "I", "U+30C7", "U+30FC", "U+30BF", "U+30D7", "U+30E9",
          "U+30A4", "U+30D0", "U+30B7", "U+30FC", "U+30B3", "U+30F3",
          "U+30D7", "U+30E9", "U+30A4", "U+30A2", "U+30F3", "U+30B9",
          "U+306E", "U+30BD", "U+30EA", "U+30E5", "U+30FC", "U+30B7",
          "U+30E7", "U+30F3">>)

\* a prior plan whose title is the theme itself
Titled(theme) == PriorPlan(theme, <<>>, <<>>)

SelectThemeHistories ==
    { None,
      ListOf(<<>>),
      ListOf(<<existing_plan>>),
      ListOf(<<Titled(TRENDS["AI_ML"][3])>>),
      ListOf(<<Titled(TRENDS["SAAS"][1]), Titled(TRENDS["FINTECH"][4])>>) }

AttemptBudgets == {1, max_attempts}

\* a variant that keeps a theme the history check rejected
ThemeRejectedWithoutNot(theme, previous_plans) ==
    /\ ~NoPreviousPlans(previous_plans)
    /\ AvoidNearDuplicates(theme, previous_plans)

\* if previous_plans and not self._avoid_near_duplicates(theme, previous_plans)
ThemeRejected(theme, previous_plans) ==
    /\ ~NoPreviousPlans(previous_plans)
    /\ ~AvoidNearDuplicates(theme, previous_plans)

\* every theme of TRENDS
AllThemes == UNION {Choice(TRENDS[category]) : category \in Choice(TrendKeys)}

\* the outcome of the condition above for each history and theme, computed
\* once: the themes a history rejects
RejectedThemes ==
    [previous_plans \in SelectThemeHistories |->
        {theme \in AllThemes : ThemeRejected(theme, previous_plans)}]

(***************************************************************************)
(* _select_theme, one step for each pass of its loop.  last_call holds the *)
(* position of the running call: the passes made so far and the theme of   *)
(* the last pass.                                                          *)
(***************************************************************************)
InitSelectTheme ==
    /\ \E previous_plans \in SelectThemeHistories, budget \in AttemptBudgets :
           args = [previous_plans |-> previous_plans, max_attempts |-> budget]
    /\ returned = <<>>
    /\ last_call = [op |-> "_select_theme", result |-> "running", attempts |-> 0,
                    theme |-> <<>>, fallback |-> FALSE]
    /\ NoEvaluator

\* one pass of the loop: a rejected theme is dropped, an accepted one returned
SelectThemeAttempt ==
    /\ last_call.op = "_select_theme"
    /\ last_call.result = "running"
    /\ last_call.attempts < args.max_attempts
    /\ \E category \in Choice(TrendKeys) :
         \E theme \in Choice(TRENDS[category]) :
           IF theme \in RejectedThemes[args.previous_plans]
           THEN /\ last_call' = [last_call EXCEPT !.attempts = @ + 1,
                                                  !.theme = theme]
                /\ UNCHANGED returned
           ELSE \E business_model \in Choice(BUSINESS_MODELS),
                   target_market \in Choice(TARGET_MARKETS) :
                    /\ returned' = <<category, theme, business_model, target_market>>
                    /\ last_call' = [last_call EXCEPT !.result = "returned",
                                                      !.attempts = @ + 1,
                                                      !.theme = theme]
    /\ UNCHANGED <<args, evaluatorVars>>

\* the loop is over: a random choice that is not checked
SelectThemeFallback ==
    /\ last_call.op = "_select_theme"
    /\ last_call.result = "running"
    /\ last_call.attempts = args.max_attempts
    /\ \E category \in Choice(TrendKeys) :
         \E theme \in Choice(TRENDS[category]),
            business_model \in Choice(BUSINESS_MODELS),
            target_market \in Choice(TARGET_MARKETS) :
             /\ returned' = <<category, theme, business_model, target_market>>
             /\ last_call' = [last_call EXCEPT !.result = "returned",
                                               !.theme = theme,
                                               !.fallback = TRUE]
    /\ UNCHANGED <<args, evaluatorVars>>

NextSelectTheme ==
    \/ SelectThemeAttempt
    \/ SelectThemeFallback

SpecSelectTheme == InitSelectTheme /\ [][NextSelectTheme]_vars

\* the call is a sequential loop: a pass that can run does run
SpecSelectThemeFair == SpecSelectTheme /\ WF_vars(NextSelectTheme)

(***************************************************************************)
(* C14: theme selection always terminates; it makes at most max_attempts   *)
(* passes and returns the first theme the theme check accepts; when every  *)
(* pass was rejected it returns a random choice that is not checked; the   *)
(* theme returned belongs to TRENDS[category] and the business model and   *)
(* the target market belong to their lists.                                *)
(***************************************************************************)
SelectThemeReturned ==
    last_call.op = "_select_theme" /\ last_call.result = "returned"

\* the themes the theme check accepts, for each history
AcceptedThemes ==
    [previous_plans \in SelectThemeHistories |->
        {theme \in AllThemes :
            \/ previous_plans = None
            \/ \A k \in DOMAIN previous_plans.list :
                   ~AboveSixTenths(CalculateSimilarity(theme,
                                       ThemeComparedWith(previous_plans.list[k])))}]

CheckAccepts(theme) == theme \in AcceptedThemes[args.previous_plans]

SelectThemeSafe ==
    last_call.op = "_select_theme" =>
        /\ last_call.attempts <= args.max_attempts
        /\ (last_call.result = "running" /\ last_call.attempts > 0)
               => ~CheckAccepts(last_call.theme)
        /\ SelectThemeReturned =>
               /\ returned[1] \in {"AI_ML", "FINTECH", "HEALTHTECH", "SAAS", "CLEANTECH"}
               /\ \E i \in 1..Len(TRENDS[returned[1]]) :
                      TRENDS[returned[1]][i] = returned[2]
               /\ \E i \in 1..Len(BUSINESS_MODELS) : BUSINESS_MODELS[i] = returned[3]
               /\ \E i \in 1..Len(TARGET_MARKETS) : TARGET_MARKETS[i] = returned[4]
               /\ returned[2] = last_call.theme
               /\ IF last_call.fallback
                  THEN last_call.attempts = args.max_attempts
                  ELSE last_call.attempts >= 1 /\ CheckAccepts(returned[2])

C14_SelectThemeTerminates ==
    /\ [](SelectThemeSafe)
    /\ <>(SelectThemeReturned)

\* ten passes were rejected and the theme returned is one the check rejects
C14_Witness ==
    /\ SelectThemeReturned
    /\ last_call.fallback
    /\ last_call.attempts = 10
    /\ ~CheckAccepts(returned[2])

(***************************************************************************)
(* generate: a plan drawn from the Claude CLI's answer, from the fallback  *)
(* plan when the CLI is missing or fails, or from the enhanced fallback    *)
(* when the answer cannot be used.  Of a plan, the title, the tags and the *)
(* solution are kept: the fields later calls read.                         *)
(***************************************************************************)
\* calls of generate in a row
MaxGenerated == 2

\* category.lower() works on the characters of the key
CategoryChars ==
    ("AI_ML" :> <<"A", "I", "_", "M", "L">>)
    @@ ("FINTECH" :> <<"F", "I", "N", "T", "E", "C", "H">>)
    @@ ("HEALTHTECH" :> <<"H", "E", "A", "L", "T", "H", "T", "E", "C", "H">>)
    @@ ("SAAS" :> <<"S", "A", "A", "S">>)
    @@ ("CLEANTECH" :> <<"C", "L", "E", "A", "N", "T", "E", "C", "H">>)

\* the texts around the theme in _generate_fallback_plan
FallbackSolutionHead ==
    <<"A", "I", "U+3068", "U+81EA", "U+52D5", "U+5316", "U+3092", "U+6D3B",
      "U+7528", "U+3057", "U+305F">>
FallbackSolutionTail ==
    <<"U+30D7", "U+30E9", "U+30C3", "U+30C8", "U+30D5", "U+30A9", "U+30FC",
      "U+30E0", "U+3092", "U+63D0", "U+4F9B", "U+3057", "U+307E", "U+3059",
      "U+3002">>

\* _generate_fallback_plan, given the selection it drew
FallbackPlan(selection) ==
    PriorPlan(selection[2] \o <<" ", "-", " ">> \o selection[3],
              <<Lower(selection[2]), Lower(CategoryChars[selection[1]]),
                Lower(selection[3])>>,
              FallbackSolutionHead \o selection[2] \o FallbackSolutionTail)

\* the texts around the theme in _generate_enhanced_fallback
EnhancedTitleHead ==
    <<"A", "I", "U+99C6", "U+52D5", "U+578B">>
EnhancedTitleTail ==
    <<"U+30D7", "U+30E9", "U+30C3", "U+30C8", "U+30D5", "U+30A9", "U+30FC",
      "U+30E0">>
EnhancedSolutionHead ==
    <<"U+6700", "U+65B0", "U+306E", "A", "I", "/", "U+6A5F", "U+68B0",
      "U+5B66", "U+7FD2", "U+6280", "U+8853", "U+3092", "U+6D3B", "U+7528",
      "U+3057", "U+305F">>
EnhancedSolutionDeveloped ==
    <<"U+30D7", "U+30E9", "U+30C3", "U+30C8", "U+30D5", "U+30A9", "U+30FC",
      "U+30E0", "U+3092", "U+958B", "U+767A", "U+3057", "U+3001">>
EnhancedSolutionProcess ==
    <<"U+306E", "U+696D", "U+52D9", "U+30D7", "U+30ED", "U+30BB", "U+30B9",
      "U+3092">>
EnhancedSolutionTail ==
    <<"%", "U+81EA", "U+52D5", "U+5316", "U+3057", "U+307E", "U+3059",
      "U+3002", "U+5F53", "U+793E", "U+306E", "U+72EC", "U+81EA", "U+30A2",
      "U+30EB", "U+30B4", "U+30EA", "U+30BA", "U+30E0", "U+306F", "U+3001",
      "U+65E2", "U+5B58", "U+30B7", "U+30B9", "U+30C6", "U+30E0", "U+3068",
      "U+30B7", "U+30FC", "U+30E0", "U+30EC", "U+30B9", "U+306B", "U+7D71",
      "U+5408", "U+3055", "U+308C", "U+3001", "U+5C0E", "U+5165", "U+304B",
      "U+3089", "3", "0", "U+65E5", "U+4EE5", "U+5185", "U+306B", "U+4FA1",
      "U+5024", "U+3092", "U+63D0", "U+4F9B", "U+3057", "U+307E", "U+3059",
      "U+3002">>

\* str(n) for a number of two digits
DigitChars == <<"0", "1", "2", "3", "4", "5", "6", "7", "8", "9">>
TwoDigits(n) == <<DigitChars[(n \div 10) + 1], DigitChars[(n % 10) + 1]>>

\* s.replace(" ", "-")
ReplaceSpaces(s) == [i \in 1..Len(s) |-> IF s[i] = " " THEN "-" ELSE s[i]]

\* _generate_enhanced_fallback, given generate's selection and the percentage
\* drawn by random.randint(70, 95)
EnhancedFallback(selection, percent) ==
    PriorPlan(EnhancedTitleHead \o selection[2] \o EnhancedTitleTail,
              <<ReplaceSpaces(Lower(selection[2])), Lower(CategoryChars[selection[1]]),
                <<"a", "i", "-", "m", "l">>, <<"s", "a", "a", "s">>,
                <<"b", "2", "b">>>>,
              EnhancedSolutionHead \o selection[2] \o EnhancedSolutionDeveloped
                  \o selection[4] \o EnhancedSolutionProcess \o TwoDigits(percent)
                  \o EnhancedSolutionTail)

\* the draws of _select_theme that are explored: one category, two of its
\* themes, two business models, one target market
DrawnSelections ==
    {<<category, TRENDS[category][i], BUSINESS_MODELS[j], TARGET_MARKETS[k]>> :
        category \in {"AI_ML"}, i \in {1, 2}, j \in {1, 2}, k \in {1}}

\* the draws of random.randint(70, 95) that are explored
DrawnPercents == {70, 95}

\* answers of the Claude CLI that parse: two plans with close titles
ClaudeAnswers ==
    { PriorPlan(<<"U+30D3", "U+30B8", "U+30CD", "U+30B9", "U+30D7", "U+30E9", "U+30F3">>,
                <<<<"a", "i">>, <<"m", "l">>>>,
                <<"U+540C", "U+3058", "U+30C6", "U+30AD", "U+30B9", "U+30C8">>),
      PriorPlan(<<"U+30D3", "U+30B8", "U+30CD", "U+30B9", "U+30D7", "U+30E9", "U+30F3", "2">>,
                <<<<"a", "i">>>>,
                <<"U+540C", "U+3058", "U+30C6", "U+30AD", "U+30B9", "U+30C8">>) }

\* the data the duplicate check can see, and every plan a call can build
CheckedData ==
    {FallbackPlan(selection) : selection \in DrawnSelections} \cup ClaudeAnswers

GeneratedPlans ==
    CheckedData
        \cup {EnhancedFallback(selection, percent) :
                 selection \in DrawnSelections, percent \in DrawnPercents}

\* the condition of the continue in _select_theme for one prior plan,
\* computed once for each theme and plan
\* A ratio 2M/T has M at most the length of the shorter text: when twice
\* that length is not above 0.6 of T the theme is kept whatever matches.
CanBeTooClose(theme, prior) ==
    10 * 2 * Min(Len(theme), Len(CombinedText(prior)))
        > 6 * (Len(theme) + Len(CombinedText(prior)))

ThemeRejectedBy ==
    [theme \in AllThemes, prior \in GeneratedPlans |->
        /\ CanBeTooClose(theme, prior)
        /\ ThemeRejected(theme, ListOf(<<prior>>))]

\* _avoid_near_duplicates rejects a theme when one prior plan is too close
ThemeRejectedIn(theme, previous_plans) ==
    \E k \in DOMAIN previous_plans :
        ThemeRejectedBy[theme, previous_plans[k]]

\* what _select_theme can return: a selection whose theme the history
\* accepts, or any selection after max_attempts draws of rejected themes
SelectThemeResults(previous_plans) ==
    {selection \in DrawnSelections : ~ThemeRejectedIn(selection[2], previous_plans)}
        \cup (IF max_attempts = 0
                 \/ \E theme \in AllThemes : ThemeRejectedIn(theme, previous_plans)
              THEN DrawnSelections ELSE {})

\* _is_duplicate with the default threshold 0.7 for one prior plan, computed
\* once for each pair of plans
DuplicateOf ==
    [data \in CheckedData, prior \in GeneratedPlans |->
        IsDuplicate(data.title, data.tags, <<prior>>, <<7, 10>>)]

\* _is_duplicate returns True at the first prior plan that matches
IsDuplicateIn(data, previous_plans) ==
    \E k \in DOMAIN previous_plans : DuplicateOf[data, previous_plans[k]]

\* one pass of generate up to the duplicate check: the data it holds, and
\* whether the check saw it (the enhanced fallback is built in the handler
\* of the exception, after the check)
Candidates(previous_plans) ==
    {[checked |-> TRUE, data |-> FallbackPlan(drawn)] :
         drawn \in SelectThemeResults(<<>>)}
        \cup {[checked |-> TRUE, data |-> answer] : answer \in ClaudeAnswers}
        \cup {[checked |-> FALSE, data |-> EnhancedFallback(selection, percent)] :
                 selection \in SelectThemeResults(previous_plans),
                 percent \in DrawnPercents}

InitGenerate ==
    /\ args = [self |-> [iteration |-> 1], previous_plans |-> <<>>]
    /\ returned = None
    /\ last_call = [op |-> "none", result |-> "none"]
    /\ NoEvaluator

\* generate(previous_plans): a checked duplicate is generated again once,
\* while self.iteration < 2; the second pass keeps what it draws
Generate ==
    /\ returned = None
    /\ Len(args.previous_plans) < MaxGenerated
    /\ \E first \in Candidates(args.previous_plans) :
         IF /\ first.checked
            /\ IsDuplicateIn(first.data, args.previous_plans)
            /\ args.self.iteration < 2
         THEN \E second \in Candidates(args.previous_plans) :
                  /\ returned' = second.data
                  /\ args' = [args EXCEPT !.self.iteration = @ + 1]
                  /\ last_call' = [op |-> "generate", result |-> "returned",
                                   regenerated |-> TRUE, checked |-> second.checked]
         ELSE /\ returned' = first.data
              /\ UNCHANGED args
              /\ last_call' = [op |-> "generate", result |-> "returned",
                               regenerated |-> FALSE, checked |-> first.checked]
    /\ UNCHANGED evaluatorVars

\* the caller: previous_plans.append(plan)
AppendPlan ==
    /\ returned # None
    /\ args' = [args EXCEPT !.previous_plans = Append(@, returned)]
    /\ returned' = None
    /\ last_call' = [op |-> "append", result |-> "none"]
    /\ UNCHANGED evaluatorVars

NextGenerate ==
    \/ Generate
    \/ AppendPlan

SpecGenerate == InitGenerate /\ [][NextGenerate]_vars

(***************************************************************************)
(* C15: across successive generate calls on one generator, each given the  *)
(* list of all plans generated before, the titles of the generated plans   *)
(* are pairwise distinct.                                                  *)
(***************************************************************************)
C15_TitlesDistinct ==
    \A i \in DOMAIN args.previous_plans, j \in DOMAIN args.previous_plans :
        i # j => args.previous_plans[i].title # args.previous_plans[j].title

(***************************************************************************)
(* PlanEvaluator: comparison with a benchmark, ranking and filtering.      *)
(* Scores are in thousandths; a quotient is kept exact as a pair           *)
(* <<numerator, denominator>>.                                             *)
(***************************************************************************)
\* plans in a ranked list, plans of a benchmark with distinct scores, and
\* plans of a benchmark whose scores are drawn freely
MaxPlans == 4
MaxBenchmark == 10
MaxTied == 3

\* a plan that was given the score s
ScoredPlan(id, s) == [Scored(sample_business_plan, s, s, s) EXCEPT !.id = id]

ScoreLevels == {Pts(50), Pts(60), Pts(90)}

\* the list of plans with the given scores, identified by their position
PlansScoring(scores) == [i \in DOMAIN scores |-> ScoredPlan(<<"plan", i>>, scores[i])]

\* scores 10, 20, ..: the list of test_percentile_calculation when n = 10
Ladder(n) == [i \in 1..n |-> Pts(10 * i)]

\* one lowest score and a tie above it
TiedAbove(n) == [i \in 1..n |-> IF i = 1 THEN Pts(10) ELSE Pts(90)]

BenchmarkScores ==
    UNION {[1..n -> ScoreLevels] : n \in 0..MaxTied}
        \cup {Ladder(n) : n \in 1..MaxBenchmark}
        \cup {TiedAbove(n) : n \in 2..MaxBenchmark}

\* PlanEvaluator(benchmark_plans): self.benchmark_plans = benchmark_plans or []
PlanEvaluator(benchmark_plans) ==
    [benchmark_plans |-> IF NoPreviousPlans(benchmark_plans) THEN <<>>
                         ELSE benchmark_plans.list]

\* sum(f(p) for p in list), by halves
RECURSIVE SumScores(_, _, _, _)
SumScores(list, field, first, last) ==
    IF first > last THEN 0
    ELSE IF first = last THEN list[first][field]
    ELSE SumScores(list, field, first, (first + last) \div 2)
             + SumScores(list, field, ((first + last) \div 2) + 1, last)

\* mutant of CalculatePercentile: an equal score counts as lower
CalculatePercentileInclusive(score, benchmark_scores) ==
    LET rank == Cardinality({k \in DOMAIN benchmark_scores :
                                 benchmark_scores[k] <= score})
    IN  IF benchmark_scores # <<>> THEN <<rank * 100, Len(benchmark_scores)>>
        ELSE <<0, 1>>

\* _calculate_percentile: (rank / len(benchmark_scores)) * 100, 0 for no scores
CalculatePercentile(score, benchmark_scores) ==
    LET rank == Cardinality({k \in DOMAIN benchmark_scores :
                                 benchmark_scores[k] < score})
    IN  IF benchmark_scores # <<>> THEN <<rank * 100, Len(benchmark_scores)>>
        ELSE <<0, 1>>

\* plan.score - sum / len, as one quotient
DiffFromAverage(p, benchmark_plans, field) ==
    <<p[field] * Len(benchmark_plans)
          - SumScores(benchmark_plans, field, 1, Len(benchmark_plans)),
      Len(benchmark_plans)>>

CompareWithBenchmark(self, p) ==
    IF self.benchmark_plans = <<>> THEN None
    ELSE [feasibility_diff   |-> DiffFromAverage(p, self.benchmark_plans, "feasibility_score"),
          profitability_diff |-> DiffFromAverage(p, self.benchmark_plans, "profitability_score"),
          innovation_diff    |-> DiffFromAverage(p, self.benchmark_plans, "innovation_score"),
          overall_diff       |-> DiffFromAverage(p, self.benchmark_plans, "overall_score"),
          percentile         |->
              CalculatePercentile(p.overall_score,
                  [k \in DOMAIN self.benchmark_plans |->
                      self.benchmark_plans[k].overall_score])]

\* the plan compared: a plan of the benchmark, or another plan
ComparedPlans(benchmark_plans) ==
    {benchmark_plans[k] : k \in DOMAIN benchmark_plans}
        \cup {ScoredPlan(<<"plan", 0>>, s) : s \in {Pts(0), Pts(60), Pts(95), Pts(200)}}

InitCompareWithBenchmark ==
    /\ \E benchmark_plans \in {ListOf(PlansScoring(scores)) : scores \in BenchmarkScores}
                                  \cup {None} :
         \E self \in {PlanEvaluator(benchmark_plans)} :
           \E p \in ComparedPlans(self.benchmark_plans) :
               args = [self |-> self, plan |-> p]
    /\ returned = None
    /\ last_call = [op |-> "none", result |-> "none"]
    /\ NoEvaluator

CallCompareWithBenchmark ==
    /\ last_call.op = "none"
    /\ returned' = CompareWithBenchmark(args.self, args.plan)
    /\ last_call' = [op |-> "compare_with_benchmark", result |-> "returned"]
    /\ UNCHANGED <<args, evaluatorVars>>

NextCompareWithBenchmark ==
    \/ CallCompareWithBenchmark

SpecCompareWithBenchmark ==
    InitCompareWithBenchmark /\ [][NextCompareWithBenchmark]_vars

(***************************************************************************)
(* C18: against a benchmark that is not empty the percentile is the number *)
(* of benchmark overall scores strictly less than the score, divided by    *)
(* the size of the benchmark, times 100: 0 for the lowest scorer even with *)
(* ties above it, 100 for a score above every benchmark score, 90 for the  *)
(* top scorer of its own benchmark of 10 plans; with an empty benchmark    *)
(* compare_with_benchmark returns no comparison.                           *)
(***************************************************************************)
Compared == last_call.op = "compare_with_benchmark"

BenchmarkSize == Len(args.self.benchmark_plans)

StrictlyLess ==
    {k \in 1..BenchmarkSize :
        args.self.benchmark_plans[k].overall_score < args.plan.overall_score}

OwnBenchmark ==
    \E k \in 1..BenchmarkSize : args.self.benchmark_plans[k] = args.plan

\* the percentile returned is the whole number n
PercentileIs(n) == returned.percentile[1] = n * returned.percentile[2]

C18_Percentile ==
    Compared =>
        IF BenchmarkSize = 0 THEN returned = None
        ELSE /\ returned # None
             /\ returned.percentile[2] > 0
             /\ returned.percentile[1] * BenchmarkSize
                    = 100 * Cardinality(StrictlyLess) * returned.percentile[2]
             /\ (\A k \in 1..BenchmarkSize :
                     args.self.benchmark_plans[k].overall_score
                         >= args.plan.overall_score)
                    => PercentileIs(0)
             /\ (\A k \in 1..BenchmarkSize :
                     args.self.benchmark_plans[k].overall_score
                         < args.plan.overall_score)
                    => PercentileIs(100)
             /\ (/\ BenchmarkSize = 10
                 /\ OwnBenchmark
                 /\ Cardinality(StrictlyLess) = 9)
                    => PercentileIs(90)

\* the top scorer of its own benchmark of 10 plans
C18_Witness ==
    /\ Compared
    /\ BenchmarkSize = 10
    /\ OwnBenchmark
    /\ Cardinality(StrictlyLess) = 9
    /\ PercentileIs(90)

\* the lowest scorer of a benchmark whose other scores tie
C18_WitnessLowest ==
    /\ Compared
    /\ BenchmarkSize >= 3
    /\ OwnBenchmark
    /\ \A k \in 2..BenchmarkSize :
           /\ args.self.benchmark_plans[k].overall_score
                  = args.self.benchmark_plans[2].overall_score
           /\ args.self.benchmark_plans[k].overall_score > args.plan.overall_score
    /\ PercentileIs(0)

(***************************************************************************)
(* rank_plans and filter_top_plans.                                        *)
(***************************************************************************)
\* mutant of RankPlans: plans with equal scores come out in reverse order
RankPlansUnstable(list) ==
    LET Before(i) == {j \in DOMAIN list :
                         \/ list[j].overall_score > list[i].overall_score
                         \/ /\ list[j].overall_score = list[i].overall_score
                            /\ j > i}
    IN  [k \in DOMAIN list |->
            list[CHOOSE i \in DOMAIN list : Cardinality(Before(i)) = k - 1]]

\* sorted(plans, key=lambda p: p.overall_score, reverse=True): a new list;
\* the sort is stable, so of two plans with the same key the one that comes
\* first in the list comes first in the result.  Before(i) are the plans
\* placed before list[i].
RankPlans(list) ==
    LET Before(i) == {j \in DOMAIN list :
                         \/ list[j].overall_score > list[i].overall_score
                         \/ /\ list[j].overall_score = list[i].overall_score
                            /\ j < i}
    IN  [k \in DOMAIN list |->
            list[CHOOSE i \in DOMAIN list : Cardinality(Before(i)) = k - 1]]

\* [p for p in ranked if p.overall_score >= min_score]
RECURSIVE AtLeast(_, _)
AtLeast(ranked, min_score) ==
    IF ranked = <<>> THEN <<>>
    ELSE IF Head(ranked).overall_score >= min_score
         THEN <<Head(ranked)>> \o AtLeast(Tail(ranked), min_score)
         ELSE AtLeast(Tail(ranked), min_score)

\* list[:n]: the first n items, or all but the last -n when n is negative
SliceTo(list, n) ==
    IF n >= 0 THEN SubSeq(list, 1, Min(n, Len(list)))
    ELSE SubSeq(list, 1, Max(Len(list) + n, 0))

\* mutant of FilterTopPlans: a plan scoring exactly min_score is dropped
FilterTopPlansExclusive(list, top_n, min_score) ==
    SliceTo(AtLeast(RankPlans(list), min_score + 1), top_n)

FilterTopPlans(list, top_n, min_score) ==
    SliceTo(AtLeast(RankPlans(list), min_score), top_n)

\* lists of plans, each with one of the score levels
PlanLists ==
    {PlansScoring(scores) : scores \in UNION {[1..n -> ScoreLevels] : n \in 0..MaxPlans}}

\* values of top_n (default 5) and of min_score (default 60.0)
TopNs == {-1, 0, 1, 2, 5}
MinScores == {Pts(50), Pts(60)}

InitRankPlans ==
    /\ \E list \in PlanLists : args = [plans |-> list]
    /\ returned = <<>>
    /\ last_call = [op |-> "none", result |-> "none"]
    /\ NoEvaluator

CallRankPlans ==
    /\ last_call.op = "none"
    /\ returned' = RankPlans(args.plans)
    /\ last_call' = [op |-> "rank_plans", result |-> "returned"]
    /\ UNCHANGED <<args, evaluatorVars>>

NextRankPlans ==
    \/ CallRankPlans

SpecRankPlans == InitRankPlans /\ [][NextRankPlans]_vars

InitFilterTopPlans ==
    /\ \E list \in PlanLists, top_n \in TopNs, min_score \in MinScores :
           args = [plans |-> list, top_n |-> top_n, min_score |-> min_score]
    /\ returned = <<>>
    /\ last_call = [op |-> "none", result |-> "none"]
    /\ NoEvaluator

CallFilterTopPlans ==
    /\ last_call.op = "none"
    /\ returned' = FilterTopPlans(args.plans, args.top_n, args.min_score)
    /\ last_call' = [op |-> "filter_top_plans", result |-> "returned"]
    /\ UNCHANGED <<args, evaluatorVars>>

NextFilterTopPlans ==
    \/ CallFilterTopPlans

SpecFilterTopPlans == InitFilterTopPlans /\ [][NextFilterTopPlans]_vars

(***************************************************************************)
(* C19: rank_plans returns a permutation of its input ordered by           *)
(* overall_score from highest to lowest; plans with equal overall_score    *)
(* keep their relative input order; the input list is not reordered.       *)
(***************************************************************************)
\* where the plan at place k of the result stood in the list
PlaceIn(list, p) == CHOOSE i \in DOMAIN list : list[i] = p

\* result holds every plan of list once
PermutationOf(result, list) ==
    /\ Len(result) = Len(list)
    /\ \A i \in DOMAIN list : \E k \in DOMAIN result : result[k] = list[i]
    /\ \A k \in DOMAIN result : \E i \in DOMAIN list : result[k] = list[i]

C19_RankIsStableSort ==
    [][last_call'.op = "rank_plans" =>
          /\ args' = args
          /\ PermutationOf(returned', args.plans)
          /\ \A k \in 1..(Len(returned') - 1) :
                 /\ returned'[k].overall_score >= returned'[k + 1].overall_score
                 /\ returned'[k].overall_score = returned'[k + 1].overall_score
                        => PlaceIn(args.plans, returned'[k])
                               < PlaceIn(args.plans, returned'[k + 1])]_vars

\* two plans that tie are ranked behind a plan that came after them
C19_Witness ==
    /\ last_call.op = "rank_plans"
    /\ Len(args.plans) >= 3
    /\ args.plans[1].overall_score = args.plans[2].overall_score
    /\ args.plans[3].overall_score > args.plans[1].overall_score
    /\ returned[1] = args.plans[3]
    /\ returned[2] = args.plans[1]
    /\ returned[3] = args.plans[2]

(***************************************************************************)
(* C20: filter_top_plans(plans, top_n, min_score) with top_n >= 0 returns  *)
(* the first top_n plans of rank_plans(plans) restricted to overall_score  *)
(* >= min_score: at most top_n plans, each scoring at least min_score, and *)
(* no plan left out for length scores higher than a returned one; plans    *)
(* scoring 90 and 50 with top_n = 5 and min_score = 60 give exactly the    *)
(* plan scoring 90.                                                        *)
(***************************************************************************)
Filtered == last_call.op = "filter_top_plans"

\* the places in the list of the plans that score at least min_score
Eligible == {i \in DOMAIN args.plans : args.plans[i].overall_score >= args.min_score}

\* the places in the list of the plans returned
Kept == {i \in DOMAIN args.plans : \E k \in DOMAIN returned : returned[k] = args.plans[i]}

C20_FilterTopPlans ==
    (Filtered /\ args.top_n >= 0) =>
        /\ Len(returned) = Min(args.top_n, Cardinality(Eligible))
        /\ Cardinality(Kept) = Len(returned)
        /\ Kept \subseteq Eligible
        /\ \A i \in Eligible \ Kept : \A j \in Kept :
               \/ args.plans[i].overall_score < args.plans[j].overall_score
               \/ /\ args.plans[i].overall_score = args.plans[j].overall_score
                  /\ j < i
        /\ \A k \in 1..(Len(returned) - 1) :
               /\ returned[k].overall_score >= returned[k + 1].overall_score
               /\ returned[k].overall_score = returned[k + 1].overall_score
                      => PlaceIn(args.plans, returned[k])
                             < PlaceIn(args.plans, returned[k + 1])
        /\ (/\ Len(args.plans) = 2
            /\ args.plans[1].overall_score = Pts(90)
            /\ args.plans[2].overall_score = Pts(50)
            /\ args.top_n = 5
            /\ args.min_score = Pts(60))
               => returned = <<args.plans[1]>>

\* the plans scoring 90 and 50 with top_n = 5 and min_score = 60
C20_Witness ==
    /\ Filtered
    /\ Len(args.plans) = 2
    /\ args.plans[1].overall_score = Pts(90)
    /\ args.plans[2].overall_score = Pts(50)
    /\ args.top_n = 5
    /\ args.min_score = Pts(60)
    /\ returned = <<args.plans[1]>>

\* a plan that scores enough is left out because top_n plans rank before it
C20_WitnessCut ==
    /\ Filtered
    /\ args.top_n = 2
    /\ Cardinality(Eligible) > 2
    /\ Len(returned) = 2

(***************************************************************************)
(* C21: in the evaluation detail each dimension has its strength exactly   *)
(* when its sub-score is at least 80 and its weakness exactly when it is   *)
(* below 60; the recommendation to raise LTV or cut CAC is there exactly   *)
(* when CAC > 0 and LTV/CAC < 3; an emerging market adds its note to the   *)
(* recommendations and a declining market adds a weakness; every list is   *)
(* in the order feasibility, LTV/CAC, profitability, innovation, market    *)
(* stage.                                                                  *)
(***************************************************************************)
Has(list, text) == \E k \in DOMAIN list : list[k].text = text

\* the place of each statement in the fixed order
StatementOrder ==
    [feasibility_very_high |-> 1, feasibility_issue |-> 1,
     ltv_cac_excellent |-> 2, ltv_cac_low |-> 2, raise_ltv_or_cut_cac |-> 2,
     profitability_very_high |-> 3, profitability_issue |-> 3,
     rethink_market_or_growth |-> 3,
     innovation_high |-> 4, innovation_lacking |-> 4,
     strengthen_technology_or_model |-> 4,
     declining_market |-> 5, emerging_market_early_entry |-> 5]

InFixedOrder(list) ==
    \A i \in DOMAIN list, j \in DOMAIN list :
        i < j => StatementOrder[list[i].text] < StatementOrder[list[j].text]

\* strength at 80 or more, weakness below 60, for one dimension
DimensionStatements(detail, score, strength, weakness) ==
    /\ Has(detail.strengths, strength) <=> score >= 80000
    /\ Has(detail.weaknesses, weakness) <=> score < 60000

DetailMatches(detail, p) ==
    /\ DimensionStatements(detail, p.feasibility_score,
                           "feasibility_very_high", "feasibility_issue")
    /\ DimensionStatements(detail, p.profitability_score,
                           "profitability_very_high", "profitability_issue")
    /\ DimensionStatements(detail, p.innovation_score,
                           "innovation_high", "innovation_lacking")
    /\ Has(detail.recommendations, "raise_ltv_or_cut_cac")
           <=> /\ p.financial_projection.customer_cac > 0
               /\ p.financial_projection.customer_ltv
                      < 3 * p.financial_projection.customer_cac
    /\ Has(detail.recommendations, "emerging_market_early_entry")
           <=> p.market_analysis.market_stage = "emerging"
    /\ Has(detail.weaknesses, "declining_market")
           <=> p.market_analysis.market_stage = "declining"
    /\ InFixedOrder(detail.strengths)
    /\ InFixedOrder(detail.weaknesses)
    /\ InFixedOrder(detail.recommendations)

C21_DetailStatements ==
    \A e \in Evaluators :
        evaluation_details[e] # None => DetailMatches(evaluation_details[e], plan)

\* an emerging market whose note follows the LTV/CAC recommendation
C21_Witness ==
    \E e \in Evaluators :
        /\ evaluation_details[e] # None
        /\ Len(evaluation_details[e].recommendations) >= 2
        /\ evaluation_details[e].recommendations[1].text = "raise_ltv_or_cut_cac"
        /\ Has(evaluation_details[e].recommendations, "emerging_market_early_entry")

(***************************************************************************)
(* C22: a plan without its market analysis or its financial projection is  *)
(* rejected by evaluate with an error before any score is assigned: the    *)
(* four scores of the plan and the evaluation_details of the evaluator are *)
(* after the failed call what they were before it.                         *)
(***************************************************************************)
MissingPart(p) == p.market_analysis = None \/ p.financial_projection = None

C22_MissingPartRejected ==
    [][MissingPart(plan) =>
          /\ last_call'.op = "evaluate"
          /\ last_call'.result = "AttributeError"
          /\ Scores(plan') = Scores(plan)
          /\ plan' = plan
          /\ evaluation_details' = evaluation_details]_vars

\* a plan with a market analysis and no financial projection was rejected
C22_Witness ==
    /\ last_call.op = "evaluate"
    /\ last_call.result = "AttributeError"
    /\ plan.market_analysis # None
    /\ plan.financial_projection = None
    /\ Scores(plan) = last_call.before

(***************************************************************************)
(* Two callers run evaluate(plan, detailed=True) at the same time, each on *)
(* its own plan, on one evaluator or on two; each then reads               *)
(* evaluation_details of the evaluator it called.  A call writes its own   *)
(* plan (lines 67-79) and then the detail slot of its evaluator (line 82). *)
(* last_call holds the position of each caller, returned what it read.     *)
(***************************************************************************)
Callers == {1, 2}
Instances == {"a", "b"}

\* mutant of StoreDetails: the slot belongs to the class, not to the instance
StoreDetailsOnClass(slots, self, details) == [i \in DOMAIN slots |-> details]

\* self.evaluation_details = details
StoreDetails(slots, self, details) == [slots EXCEPT ![self] = details]

InitConcurrent ==
    /\ \E i \in DOMAIN HeldPlans, j \in DOMAIN HeldPlans :
           i # j /\ plans = <<HeldPlans[i], HeldPlans[j]>>
    /\ \E other \in Instances :
           args = [t \in Callers |-> [plan |-> t,
                                      self |-> IF t = 1 THEN "a" ELSE other]]
    /\ evaluation_details = [i \in Instances |-> None]
    /\ last_call = [t \in Callers |-> [op |-> "evaluate", result |-> "running"]]
    /\ returned = [t \in Callers |-> None]
    /\ plan = None
    /\ last_detailed = <<>>

\* lines 63-79: the sub-scores are computed and written to the caller's plan
AssignScores(t) ==
    /\ last_call[t].result = "running"
    /\ \E p \in {plans[args[t].plan]} :
         IF EvaluateResult(p) = "returned"
         THEN /\ plans' = [plans EXCEPT ![args[t].plan] =
                              Scored(p, EvaluateFeasibility(p).score,
                                     EvaluateProfitability(p).score,
                                     EvaluateInnovation(p).score)]
              /\ last_call' = [last_call EXCEPT ![t].result = "scored"]
         ELSE /\ last_call' = [last_call EXCEPT ![t].result = EvaluateResult(p)]
              /\ UNCHANGED plans
    /\ UNCHANGED <<plan, evaluation_details, last_detailed, callVars>>

\* lines 81-87: the detail is written to the evaluator and the call returns
StoreAndReturn(t) ==
    /\ last_call[t].result = "scored"
    /\ \E p \in {plans[args[t].plan]} :
         evaluation_details' =
             StoreDetails(evaluation_details, args[t].self,
                 GenerateEvaluationDetails(p, EvaluateFeasibility(p).breakdown,
                     EvaluateProfitability(p).breakdown,
                     EvaluateInnovation(p).breakdown))
    /\ last_call' = [last_call EXCEPT ![t].result = "returned"]
    /\ UNCHANGED <<plan, plans, last_detailed, callVars>>

\* the caller reads evaluator.evaluation_details after its call returned
ReadDetails(t) ==
    /\ last_call[t].result = "returned"
    /\ returned' = [returned EXCEPT ![t] = evaluation_details[args[t].self]]
    /\ last_call' = [last_call EXCEPT ![t].result = "read"]
    /\ UNCHANGED <<args, evaluatorVars>>

NextConcurrent ==
    \/ \E t \in Callers : AssignScores(t)
    \/ \E t \in Callers : StoreAndReturn(t)
    \/ \E t \in Callers : ReadDetails(t)

SpecConcurrent == InitConcurrent /\ [][NextConcurrent]_vars

(***************************************************************************)
(* C23: with two evaluators every interleaving leaves each plan with the   *)
(* scores of a sequential evaluation and each evaluator's detail           *)
(* describing its own plan; with one shared evaluator the scores are still *)
(* those of a sequential evaluation, but in some interleaving a caller     *)
(* that reads evaluation_details right after its call obtains the detail   *)
(* of the other plan.                                                      *)
(***************************************************************************)
PlanOf(t) == plans[args[t].plan]

\* the scores a plan gets when it is evaluated alone
SequentialScores(p) ==
    LET f == EvaluateFeasibility(p).score
        q == EvaluateProfitability(p).score
        n == EvaluateInnovation(p).score
    IN  [feasibility_score |-> f, profitability_score |-> q, innovation_score |-> n,
         overall_score |-> OverallScore(p.category, f, q, n)]

Describes(detail, p) ==
    /\ detail # None
    /\ detail.score = p.overall_score
    /\ detail.breakdown = BreakdownOf(p)
    /\ DetailMatches(detail, p)

SeparateInstances == args[1].self # args[2].self

C23_ConcurrentEvaluate ==
    \A t \in Callers :
        /\ last_call[t].result \in {"scored", "returned", "read"}
               => Scores(PlanOf(t)) = SequentialScores(PlanOf(t))
        /\ (SeparateInstances /\ last_call[t].result \in {"returned", "read"})
               => Describes(evaluation_details[args[t].self], PlanOf(t))
        /\ (SeparateInstances /\ last_call[t].result = "read")
               => Describes(returned[t], PlanOf(t))

\* on a shared evaluator the first caller read the detail of the other plan
C23_Witness ==
    /\ ~SeparateInstances
    /\ last_call[1].result = "read"
    /\ Scores(PlanOf(1)) = SequentialScores(PlanOf(1))
    /\ Scores(PlanOf(2)) = SequentialScores(PlanOf(2))
    /\ Describes(returned[1], PlanOf(2))
    /\ ~Describes(returned[1], PlanOf(1))

(***************************************************************************)
(* Plan storage: utils/storage.py and BusinessPlan.to_json.  A stored plan *)
(* keeps the fields the file name and the conversions read.  A creation    *)
(* time is a pair of a second and a microsecond; an enum member is a       *)
(* record naming its class and its member.                                 *)
(***************************************************************************)
MaxSaved == 2       \* most save_plan calls drawn
TitleChars == 50    \* characters of the title kept in a file name

Member(cls, name) == [enum |-> cls, name |-> name]

PlanCategoryValue ==
    ("SAAS" :> "SaaS") @@ ("MARKETPLACE" :> "Marketplace") @@ ("AI_ML" :> "AI/ML") @@
    ("FINTECH" :> "FinTech") @@ ("HEALTHTECH" :> "HealthTech") @@ ("EDTECH" :> "EdTech") @@
    ("CLEANTECH" :> "CleanTech") @@ ("ECOMMERCE" :> "E-commerce") @@
    ("CONSUMER" :> "Consumer") @@ ("B2B" :> "B2B") @@ ("OTHER" :> "Other")

MarketStageValue ==
    ("EMERGING" :> "emerging") @@ ("GROWING" :> "growing") @@ ("MATURE" :> "mature") @@
    ("DECLINING" :> "declining")

\* PlanCategory(value), MarketStage(value): the member that carries the value
EnumOf(cls, values, value) ==
    Member(cls, CHOOSE n \in DOMAIN values : values[n] = value)

\* mutant: isoformat(timespec="seconds"), the microseconds are never written
IsoFormatSeconds(t) == <<"T", t.second>>

\* datetime.isoformat(): the microseconds are written only when not zero
IsoFormat(t) ==
    IF t.microsecond = 0 THEN <<"T", t.second>>
    ELSE <<"T", t.second, ".", t.microsecond>>

\* datetime.fromisoformat()
FromIsoFormat(text) ==
    IF Len(text) = 2 THEN [second |-> text[2], microsecond |-> 0]
    ELSE [second |-> text[2], microsecond |-> text[4]]

\* BusinessPlan.to_json
ToJson(p) ==
    [p EXCEPT !.created_at = IsoFormat(p.created_at),
              !.market_analysis =
                  IF p.market_analysis # None
                  THEN [p.market_analysis EXCEPT
                            !.market_stage = MarketStageValue[p.market_analysis.market_stage.name]]
                  ELSE None,
              !.category = PlanCategoryValue[p.category.name]]

\* PlanStorage._dict_to_plan
DictToPlan(data) ==
    [data EXCEPT !.created_at = FromIsoFormat(data.created_at),
                 !.market_analysis =
                     IF data.market_analysis # None
                     THEN [data.market_analysis EXCEPT
                               !.market_stage = EnumOf("MarketStage", MarketStageValue,
                                                       data.market_analysis.market_stage)]
                     ELSE None,
                 !.category = EnumOf("PlanCategory", PlanCategoryValue, data.category)]

\* created_at.strftime("%Y%m%d_%H%M%S"): the time to the second
Strftime(t) == t.second

\* f"{overall_score:.0f}": the nearest integer, a half going to the even one
FormatScore(score) ==
    LET whole == score \div 1000
        part == score % 1000
    IN  IF part < 500 THEN whole
        ELSE IF part > 500 THEN whole + 1
        ELSE IF whole % 2 = 0 THEN whole ELSE whole + 1

SafeTitle(title) ==
    Prefix([i \in 1..Len(title) |-> IF title[i] \in {"/", "\\"} THEN "-" ELSE title[i]],
           TitleChars)

FileName(p) ==
    [timestamp |-> Strftime(p.created_at), score |-> FormatScore(p.overall_score),
     safe_title |-> SafeTitle(p.title)]

LongTitle(tail) == [i \in 1..TitleChars |-> "t"] \o <<tail>>

SavedTitles == {<<"a", "/", "b">>, <<"a", "\\", "b">>, LongTitle("1"), LongTitle("2")}
SavedTimes ==
    {[second |-> 0, microsecond |-> 0], [second |-> 0, microsecond |-> 5],
     [second |-> 1, microsecond |-> 0]}
SavedScores == {79600, 80500, 81500}

SavedPlan(id, title, created_at, score) ==
    [id |-> id, title |-> title, category |-> Member("PlanCategory", "SAAS"),
     created_at |-> created_at, market_analysis |-> None,
     financial_projection |-> None, overall_score |-> score, tags |-> <<>>]

\* a is created after b
CreatedAfter(a, b) ==
    \/ a.created_at.second > b.created_at.second
    \/ /\ a.created_at.second = b.created_at.second
       /\ a.created_at.microsecond > b.created_at.microsecond

InitStorage ==
    /\ args = [self |-> [json_dir |-> <<>>]]
    /\ plans = <<>>
    /\ returned = <<>>
    /\ last_call = [op |-> "none", result |-> "none"]
    /\ plan = None
    /\ evaluation_details = <<>>
    /\ last_detailed = <<>>

\* save_plan(plan): the JSON file of that name is created or overwritten
SavePlan ==
    /\ Len(plans) < MaxSaved
    /\ \E title \in SavedTitles, created_at \in SavedTimes, score \in SavedScores :
         LET p == SavedPlan(<<"plan", Len(plans) + 1>>, title, created_at, score)
             files == args.self.json_dir
             name == FileName(p)
         IN  /\ args' = [args EXCEPT !.self.json_dir =
                            [n \in DOMAIN files \cup {name} |->
                                IF n = name THEN ToJson(p) ELSE files[n]]]
             /\ plans' = Append(plans, p)
             /\ last_call' = [op |-> "save_plan", result |-> name]
    /\ UNCHANGED <<plan, evaluation_details, last_detailed, returned>>

\* load_all_plans(): every JSON file, the newest plan first; files of one
\* creation time come in the order the directory lists them
LoadAllPlans ==
    /\ LET files == args.self.json_dir
           names == DOMAIN files
           n == Cardinality(names)
       IN  \E order \in [1..n -> names] :
             /\ \A i, j \in 1..n : i # j => order[i] # order[j]
             /\ LET loaded == [i \in 1..n |-> DictToPlan(files[order[i]])]
                IN  /\ \A i, j \in 1..n : i < j => ~CreatedAfter(loaded[j], loaded[i])
                    /\ returned' = loaded
    /\ last_call' = [op |-> "load_all_plans", result |-> "returned"]
    /\ UNCHANGED <<args, plan, evaluation_details, plans, last_detailed>>

NextStorage ==
    \/ SavePlan
    \/ LoadAllPlans

SpecStorage == InitStorage /\ [][NextStorage]_vars

(***************************************************************************)
(* C24: after k save_plan calls on k distinct plans into an empty store,   *)
(* load_all_plans returns exactly k plans, with the saved ids, whatever    *)
(* the titles, creation times and scores of the plans.                     *)
(***************************************************************************)
IdsOf(list) == {list[i].id : i \in 1..Len(list)}

C24_LoadReturnsSaved ==
    last_call.op = "load_all_plans" =>
        /\ Len(returned) = Len(plans)
        /\ IdsOf(returned) = IdsOf(plans)

(***************************************************************************)
(* to_json followed by _dict_to_plan, on plans with and without a market   *)
(* analysis and a financial projection.                                    *)
(***************************************************************************)
RoundTripAnalyses ==
    {None} \cup
    {[market_size |-> 1500, target_audience |-> "smb",
      market_stage |-> Member("MarketStage", stage),
      key_success_factors |-> <<"a", "b">>] : stage \in DOMAIN MarketStageValue}

RoundTripProjections == {None, [break_even_months |-> 18, customer_ltv |-> 1000]}

RoundTripPlans ==
    {[SavedPlan("a", <<"t">>, created_at, 80500) EXCEPT
          !.category = Member("PlanCategory", category),
          !.market_analysis = market_analysis,
          !.financial_projection = financial_projection,
          !.tags = <<"x", "y">>] :
        created_at \in SavedTimes, category \in DOMAIN PlanCategoryValue,
        market_analysis \in RoundTripAnalyses,
        financial_projection \in RoundTripProjections}

InitRoundTrip ==
    /\ \E p \in RoundTripPlans : args = [plan |-> p]
    /\ returned = None
    /\ last_call = [op |-> "none", result |-> "none"]
    /\ NoEvaluator

CallToJson ==
    /\ last_call.op = "none"
    /\ returned' = ToJson(args.plan)
    /\ last_call' = [op |-> "to_json", result |-> "returned"]
    /\ UNCHANGED <<args, evaluatorVars>>

CallDictToPlan ==
    /\ last_call.op = "to_json"
    /\ returned' = DictToPlan(returned)
    /\ last_call' = [op |-> "_dict_to_plan", result |-> "returned"]
    /\ UNCHANGED <<args, evaluatorVars>>

NextRoundTrip ==
    \/ CallToJson
    \/ CallDictToPlan

SpecRoundTrip == InitRoundTrip /\ [][NextRoundTrip]_vars

(***************************************************************************)
(* C25: the dictionary made by to_json carries the category and the market *)
(* stage as their string values and the creation time as a text, and the   *)
(* plan rebuilt from it equals the original plan in every field, with or   *)
(* without a market analysis and a financial projection.                   *)
(***************************************************************************)
ValuesOf(table) == {table[n] : n \in DOMAIN table}

C25_RoundTrip ==
    /\ last_call.op = "to_json" =>
           /\ returned.category \in ValuesOf(PlanCategoryValue)
           /\ returned.category = PlanCategoryValue[args.plan.category.name]
           /\ returned.created_at[1] = "T"
           /\ Len(returned.created_at) = IF args.plan.created_at.microsecond = 0 THEN 2 ELSE 4
           /\ args.plan.market_analysis # None =>
                  returned.market_analysis.market_stage =
                      MarketStageValue[args.plan.market_analysis.market_stage.name]
    /\ last_call.op = "_dict_to_plan" =>
           /\ returned = args.plan
           /\ \A field \in DOMAIN args.plan : returned[field] = args.plan[field]

C25_Witness ==
    /\ last_call.op = "_dict_to_plan"
    /\ args.plan.market_analysis # None
    /\ args.plan.financial_projection # None
    /\ args.plan.created_at.microsecond # 0
    /\ returned = args.plan

C25_WitnessBare ==
    /\ last_call.op = "_dict_to_plan"
    /\ args.plan.market_analysis = None
    /\ args.plan.financial_projection = None
    /\ returned = args.plan

(***************************************************************************)
(* One generate call, pass by pass: generate calls itself again after a    *)
(* checked duplicate while self.iteration < 2.  The counter starts at the  *)
(* iteration the caller gave the generator (main.py, --iteration-start).   *)
(***************************************************************************)
InitialIterations == {0, 1, 2, 3}

RetryHistories == {<<>>} \cup {<<prior>> : prior \in CheckedData}

\* BusinessPlan(..., iteration=self.iteration, ...)
BuiltPlan(data, iteration) ==
    [k \in DOMAIN data \cup {"iteration"} |->
        IF k = "iteration" THEN iteration ELSE data[k]]

InitRetry ==
    /\ \E iteration \in InitialIterations, previous_plans \in RetryHistories :
          args = [self |-> [iteration |-> iteration], previous_plans |-> previous_plans,
                  iteration |-> iteration]
    /\ returned = None
    /\ last_call = [op |-> "generate", result |-> "running", passes |-> 0,
                    duplicate |-> FALSE]
    /\ NoEvaluator

\* one pass of generate(previous_plans)
GeneratePass ==
    /\ last_call.result = "running"
    /\ \E candidate \in Candidates(args.previous_plans) :
         LET duplicate == /\ candidate.checked
                          /\ IsDuplicateIn(candidate.data, args.previous_plans)
         IN  IF duplicate /\ args.self.iteration < 2
             THEN /\ args' = [args EXCEPT !.self.iteration = @ + 1]
                  /\ last_call' = [last_call EXCEPT !.passes = @ + 1]
                  /\ UNCHANGED returned
             ELSE /\ returned' = BuiltPlan(candidate.data, args.self.iteration)
                  /\ last_call' = [last_call EXCEPT !.result = "returned",
                                                    !.passes = @ + 1,
                                                    !.duplicate = duplicate]
                  /\ UNCHANGED args
    /\ UNCHANGED evaluatorVars

NextRetry ==
    \/ GeneratePass

SpecRetry == InitRetry /\ [][NextRetry]_vars

(***************************************************************************)
(* C26: one generate call generates again at most once: it makes at most   *)
(* two passes, whatever the counter of the generator was at the call.      *)
(***************************************************************************)
C26_RegeneratesAtMostOnce == last_call.passes <= 2

\* what does hold: the passes are bounded by the distance of the counter
\* from 2, a duplicate is returned only with the counter at 2 or more, and
\* the plan carries the final counter
RetryBoundedByCounter ==
    /\ last_call.passes <= 1 + Max(0, 2 - args.iteration)
    /\ last_call.result = "returned" =>
           /\ returned.iteration = args.self.iteration
           /\ last_call.duplicate => args.self.iteration >= 2
           /\ args.self.iteration = args.iteration + last_call.passes - 1

(***************************************************************************)
(* _generate_with_claude: the retry loop around the Claude CLI.  Each step *)
(* is one round of the loop: the subprocess, the handling of its outcome   *)
(* and the wait before the next round.  last_call keeps the outcomes seen  *)
(* and the waits made.                                                     *)
(***************************************************************************)
MaxRetries == 3     \* largest max_retries drawn
MinOutput == 50     \* an output must be longer than this after trimming

Spaces(n) == [i \in 1..n |-> " "]
Letters(n) == [i \in 1..n |-> "x"]

\* str.strip()
Strip(text) ==
    LET inked == {i \in 1..Len(text) : text[i] \notin {" ", "\n"}}
    IN  IF inked = {} THEN <<>>
        ELSE SubSeq(text, CHOOSE i \in inked : \A j \in inked : i <= j,
                          CHOOSE i \in inked : \A j \in inked : i >= j)

Stdouts ==
    {<<>>, Spaces(MinOutput + 2), Spaces(1) \o Letters(MinOutput) \o Spaces(1),
     Letters(MinOutput + 1) \o <<"\n">>}

\* what one subprocess.run can do
Outcomes ==
    {[kind |-> "exit", returncode |-> returncode, stdout |-> stdout] :
        returncode \in {0, 1}, stdout \in Stdouts}
        \cup {[kind |-> "TimeoutExpired"], [kind |-> "FileNotFoundError"],
              [kind |-> "Exception"]}

\* the output is returned
Accepted(outcome) ==
    /\ outcome.kind = "exit"
    /\ outcome.returncode = 0
    /\ Strip(outcome.stdout) # <<>>
    /\ Len(Strip(outcome.stdout)) > MinOutput

\* mutant: the wait grows from zero
WaitTimeFromZero(attempt) == attempt * 5

WaitTime(attempt) == (attempt + 1) * 5

InitClaude ==
    /\ \E max_retries \in 0..MaxRetries : args = [self |-> [max_retries |-> max_retries]]
    /\ returned = [kind |-> "none"]
    /\ last_call = [op |-> "_generate_with_claude", result |-> "running", attempt |-> 0,
                    outcomes |-> <<>>, slept |-> <<>>]
    /\ NoEvaluator

\* one round of the for loop
ClaudeAttempt ==
    /\ last_call.result = "running"
    /\ last_call.attempt < args.self.max_retries
    /\ \E outcome \in Outcomes :
         LET attempt == last_call.attempt
             seen == Append(last_call.outcomes, outcome)
         IN  IF Accepted(outcome)
             THEN /\ returned' = [kind |-> "stdout", text |-> outcome.stdout]
                  /\ last_call' = [last_call EXCEPT !.result = "returned", !.outcomes = seen]
             ELSE IF outcome.kind = "FileNotFoundError"
             THEN /\ returned' = [kind |-> "fallback"]
                  /\ last_call' = [last_call EXCEPT !.result = "returned", !.outcomes = seen]
             ELSE /\ UNCHANGED returned
                  /\ last_call' = [last_call EXCEPT
                         !.attempt = attempt + 1,
                         !.outcomes = seen,
                         !.slept = IF attempt < args.self.max_retries - 1
                                   THEN Append(@, WaitTime(attempt)) ELSE @]
    /\ UNCHANGED <<args, evaluatorVars>>

\* after the loop
ClaudeAllFailed ==
    /\ last_call.result = "running"
    /\ last_call.attempt >= args.self.max_retries
    /\ returned' = [kind |-> "fallback"]
    /\ last_call' = [last_call EXCEPT !.result = "returned"]
    /\ UNCHANGED <<args, evaluatorVars>>

NextClaude ==
    \/ ClaudeAttempt
    \/ ClaudeAllFailed

SpecClaude == InitClaude /\ [][NextClaude]_vars

\* a round ends: the subprocess is run with a timeout and the wait is finite
SpecClaudeFair == SpecClaude /\ WF_vars(NextClaude)

(***************************************************************************)
(* C27: the call starts at most max_retries subprocesses and always        *)
(* returns: the output of the first attempt that exits with code 0 and     *)
(* more than 50 characters after trimming; the fallback plan at once when  *)
(* the executable is missing; the fallback plan after max_retries failed   *)
(* attempts (also for max_retries = 0).  It waits 5 * (attempt number)     *)
(* seconds after each failed attempt but the last one.                     *)
(***************************************************************************)
Started == Len(last_call.outcomes)

LongOutput(outcome) ==
    /\ outcome.kind = "exit"
    /\ outcome.returncode = 0
    /\ Len(Strip(outcome.stdout)) > 50

ClaudeReturned == last_call.result = "returned"

ClaudeSafe ==
    /\ Started <= args.self.max_retries
    /\ \A i \in 1..(Started - 1) :
           /\ ~LongOutput(last_call.outcomes[i])
           /\ last_call.outcomes[i].kind # "FileNotFoundError"
    /\ (ClaudeReturned /\ returned.kind = "stdout") =>
           /\ LongOutput(last_call.outcomes[Started])
           /\ returned.text = last_call.outcomes[Started].stdout
    /\ (ClaudeReturned /\ returned.kind = "fallback") =>
           \/ /\ Started > 0
              /\ last_call.outcomes[Started].kind = "FileNotFoundError"
           \/ /\ Started = args.self.max_retries
              /\ \A i \in 1..Started : ~LongOutput(last_call.outcomes[i])
    /\ ClaudeReturned => returned.kind \in {"stdout", "fallback"}
    /\ ~ClaudeReturned => returned.kind = "none"
    /\ LET failed == IF ClaudeReturned /\ Started > 0
                        /\ (LongOutput(last_call.outcomes[Started])
                            \/ last_call.outcomes[Started].kind = "FileNotFoundError")
                     THEN Started - 1 ELSE Started
       IN  last_call.slept = [i \in 1..Min(failed, args.self.max_retries - 1) |-> 5 * i]

C27_BoundedRetry == [](ClaudeSafe) /\ <>(ClaudeReturned)

\* the third attempt gave the output, after waits of 5 and 10 seconds
C27_Witness ==
    /\ ClaudeReturned
    /\ returned.kind = "stdout"
    /\ Started = 3
    /\ last_call.slept = <<5, 10>>

\* all attempts failed: no wait after the last one
C27_WitnessAllFailed ==
    /\ ClaudeReturned
    /\ returned.kind = "fallback"
    /\ Started = 3
    /\ args.self.max_retries = 3
    /\ last_call.outcomes[3].kind = "TimeoutExpired"
    /\ last_call.slept = <<5, 10>>

\* no attempt allowed
C27_WitnessNoRetries ==
    /\ ClaudeReturned
    /\ args.self.max_retries = 0
    /\ returned.kind = "fallback"
    /\ Started = 0

(***************************************************************************)
(* The evaluator on the plans at the low end: a plan on the lowest tier of *)
(* every criterion, and the plans that differ from it in up to MaxRaised   *)
(* fields.                                                                 *)
(***************************************************************************)
MaxRaised == 1      \* fields in which a drawn plan differs from the lowest plan

\* no year 1 or year 5 revenue, no acquisition cost, a declining market,
\* fewer mitigations than risks, the shortest texts, a category outside
\* high_innovation
lowest_plan ==
    BusinessPlan("lowest", "SaaS",
        <<>>, <<>>, <<>>,
        MarketAnalysis(1, 2, "declining", 1),
        FinancialProjection(0, 15000, 0, 1000000, 84, 5, 0, 8000),
        1, 1, 2, 1, <<>>, 1)

InitLowest ==
    /\ \E cs \in [1..MaxRaised -> FieldChanges] :
           plan = ApplyChanges(lowest_plan, cs, MaxRaised)
    /\ evaluation_details = [e \in Evaluators |-> None]
    /\ last_call = [op |-> "none", result |-> "none", before |-> Scores(plan)]
    /\ plans = <<>>
    /\ last_detailed = <<>>
    /\ args = None
    /\ returned = None

SpecLowest == InitLowest /\ [][Next]_vars

(***************************************************************************)
(* C28: every evaluated plan has feasibility >= 63, profitability >= 54    *)
(* and innovation >= 70; the sums are never below 0, so the lower clamp    *)
(* does nothing; and no detail carries the weakness statement for a        *)
(* feasibility or an innovation below 60.                                  *)
(***************************************************************************)
SumOf(breakdown) ==
    LET keys == DOMAIN breakdown
        RECURSIVE Sum(_)
        Sum(rest) == IF rest = {} THEN 0
                     ELSE LET k == CHOOSE x \in rest : TRUE
                          IN  breakdown[k] + Sum(rest \ {k})
    IN  Sum(keys)

C28_ScoreFloors ==
    Evaluated =>
        /\ plan.feasibility_score >= Pts(63)
        /\ plan.profitability_score >= Pts(54)
        /\ plan.innovation_score >= Pts(70)
        /\ Pts(50) + SumOf(FeasBreakdown(plan)) >= Pts(63)
        /\ Pts(40) + SumOf(ProfBreakdown(plan)) >= Pts(54)
        /\ Pts(50) + SumOf(InnovBreakdown(plan)) >= Pts(70)
        /\ \A e \in Evaluators :
               evaluation_details[e] # None =>
                   /\ ~Has(evaluation_details[e].weaknesses, "feasibility_issue")
                   /\ ~Has(evaluation_details[e].weaknesses, "innovation_lacking")

\* the lowest plan was evaluated with details: the three floors are met
C28_Witness ==
    /\ Evaluated
    /\ plan.feasibility_score = Pts(63)
    /\ plan.profitability_score = Pts(54)
    /\ plan.innovation_score = Pts(70)
    /\ \E e \in Evaluators :
           /\ evaluation_details[e] # None
           /\ Has(evaluation_details[e].weaknesses, "profitability_issue")

(***************************************************************************)
(* generate_evaluation_report, on the plans the caller holds and an        *)
(* evaluator without benchmark plans.  The report is kept as the values it *)
(* prints: the title and the scores of the plan, and the three lists.      *)
(***************************************************************************)
\* the details evaluate(p) computes
DetailsOf(p) ==
    LET feasibility == EvaluateFeasibility(p)
        profitability == EvaluateProfitability(p)
        innovation == EvaluateInnovation(p)
        scored == Scored(p, feasibility.score, profitability.score, innovation.score)
    IN  [plan |-> scored,
         details |-> GenerateEvaluationDetails(scored, feasibility.breakdown,
                         profitability.breakdown, innovation.breakdown)]

Report(p, details) ==
    [title |-> p.title, scores |-> Scores(p),
     strengths |-> details.strengths, weaknesses |-> details.weaknesses,
     recommendations |-> details.recommendations]

\* evaluator e runs generate_evaluation_report(plans[i]): it evaluates the
\* plan only when it holds no details, and prints the details it holds
GenerateEvaluationReport ==
    \E i \in DOMAIN plans, e \in Evaluators :
        IF evaluation_details[e] # None
        THEN /\ returned' = Report(plans[i], evaluation_details[e])
             /\ last_call' = [op |-> "generate_evaluation_report", result |-> "returned",
                              plan |-> i, evaluator |-> e, detailed |-> FALSE]
             /\ UNCHANGED <<plan, evaluation_details, plans, last_detailed, args>>
        ELSE IF EvaluateResult(plans[i]) = "returned"
        THEN /\ plans' = [plans EXCEPT ![i] = DetailsOf(plans[i]).plan]
             /\ evaluation_details' =
                    [evaluation_details EXCEPT ![e] = DetailsOf(plans[i]).details]
             /\ last_detailed' = [last_detailed EXCEPT ![e] =
                                     [plan |-> i, result |-> "returned"]]
             /\ returned' = Report(DetailsOf(plans[i]).plan, DetailsOf(plans[i]).details)
             /\ last_call' = [op |-> "generate_evaluation_report", result |-> "returned",
                              plan |-> i, evaluator |-> e, detailed |-> TRUE]
             /\ UNCHANGED <<plan, args>>
        ELSE /\ last_detailed' = [last_detailed EXCEPT ![e] =
                                     [plan |-> i, result |-> EvaluateResult(plans[i])]]
             /\ last_call' = [op |-> "generate_evaluation_report",
                              result |-> EvaluateResult(plans[i]),
                              plan |-> i, evaluator |-> e, detailed |-> TRUE]
             /\ UNCHANGED <<plan, evaluation_details, plans, args, returned>>

NextReport ==
    \/ EvaluateHeld
    \/ GenerateEvaluationReport

SpecReport == InitHeld /\ [][NextReport]_vars

(***************************************************************************)
(* C29: the report generate_evaluation_report(plan) returns lists the      *)
(* strengths, weaknesses and recommendations that evaluate computes for    *)
(* that plan, whatever evaluate and generate_evaluation_report calls the   *)
(* evaluator served before, for this plan or for others.                   *)
(***************************************************************************)
C29_ReportListsOwnStatements ==
    (/\ last_call.op = "generate_evaluation_report"
     /\ last_call.result = "returned"
     /\ EvaluateResult(plans[last_call.plan]) = "returned")
        => LET own == DetailsOf(plans[last_call.plan]).details
           IN  /\ returned.strengths = own.strengths
               /\ returned.weaknesses = own.weaknesses
               /\ returned.recommendations = own.recommendations

(***************************************************************************)
(* main.py, generate_continuous: one step is one round of the while loop   *)
(* (the call of generate_single_plan, the reload, the summary, the         *)
(* counter and the waits), the break, or a KeyboardInterrupt, which can    *)
(* arrive anywhere in the loop.  last_call keeps the loop counter, the     *)
(* rounds that succeeded and failed and the summaries written.             *)
(***************************************************************************)
MaxRounds == 12     \* most rounds of the loop followed
SummaryEvery == 10  \* a summary after each iteration that is a multiple of this

MaxIterationsDrawn == {0, 1, 3, 10}

InitContinuous ==
    /\ \E max_iterations \in MaxIterationsDrawn : args = [max_iterations |-> max_iterations]
    /\ last_call = [op |-> "generate_continuous", result |-> "running", iteration |-> 1,
                    succeeded |-> 0, failed |-> 0, summaries |-> 0]
    /\ returned = None
    /\ NoEvaluator

\* mutant: the counter advances after every round
ContinuousRoundCountingFailures ==
    /\ last_call.result = "running"
    /\ ~(args.max_iterations > 0 /\ last_call.iteration > args.max_iterations)
    /\ last_call.succeeded + last_call.failed < MaxRounds
    /\ \E success \in BOOLEAN :
         last_call' =
             IF success
             THEN [last_call EXCEPT
                      !.succeeded = @ + 1,
                      !.summaries = IF last_call.iteration % SummaryEvery = 0
                                    THEN @ + 1 ELSE @,
                      !.iteration = @ + 1]
             ELSE [last_call EXCEPT !.failed = @ + 1, !.iteration = @ + 1]
    /\ UNCHANGED <<args, returned, evaluatorVars>>

\* one round of the loop that is not interrupted
ContinuousRound ==
    /\ last_call.result = "running"
    /\ ~(args.max_iterations > 0 /\ last_call.iteration > args.max_iterations)
    /\ last_call.succeeded + last_call.failed < MaxRounds
    /\ \E success \in BOOLEAN :
         last_call' =
             IF success
             THEN [last_call EXCEPT
                      !.succeeded = @ + 1,
                      !.summaries = IF last_call.iteration % SummaryEvery = 0
                                    THEN @ + 1 ELSE @,
                      !.iteration = @ + 1]
             ELSE [last_call EXCEPT !.failed = @ + 1]
    /\ UNCHANGED <<args, returned, evaluatorVars>>

\* the break at the top of the loop
ContinuousBreak ==
    /\ last_call.result = "running"
    /\ args.max_iterations > 0
    /\ last_call.iteration > args.max_iterations
    /\ last_call' = [last_call EXCEPT !.result = "stopped"]
    /\ UNCHANGED <<args, returned, evaluatorVars>>

\* except KeyboardInterrupt: the final summary
ContinuousInterrupt ==
    /\ last_call.result = "running"
    /\ last_call' = [last_call EXCEPT !.result = "interrupted", !.summaries = @ + 1]
    /\ UNCHANGED <<args, returned, evaluatorVars>>

NextContinuous ==
    \/ ContinuousRound
    \/ ContinuousBreak
    \/ ContinuousInterrupt

SpecContinuous == InitContinuous /\ [][NextContinuous]_vars

\* the loop goes on: the test at its top is reached after the waits
SpecContinuousFair == SpecContinuous /\ WF_vars(ContinuousBreak)

(***************************************************************************)
(* C30: the loop counter is one more than the rounds that succeeded, so a  *)
(* failed round is run again under the same number and takes nothing from  *)
(* the budget; with max_iterations = N > 0 the loop leaves by itself only   *)
(* with N successes, and does so once they are reached; with               *)
(* max_iterations = 0 it ends only by an interrupt; a summary is written   *)
(* after each tenth success and at the interrupt.                          *)
(***************************************************************************)
ContinuousSafe ==
    /\ last_call.iteration = last_call.succeeded + 1
    /\ args.max_iterations > 0 => last_call.succeeded <= args.max_iterations
    /\ last_call.result = "stopped" =>
           /\ args.max_iterations > 0
           /\ last_call.succeeded = args.max_iterations
    /\ last_call.summaries =
           (last_call.succeeded \div 10)
               + (IF last_call.result = "interrupted" THEN 1 ELSE 0)

BudgetSpent ==
    /\ last_call.result = "running"
    /\ args.max_iterations > 0
    /\ last_call.succeeded = args.max_iterations

C30_ContinuousBudget ==
    [](ContinuousSafe) /\ (BudgetSpent ~> last_call.result # "running")

\* three successes for a budget of three, after failed rounds
C30_Witness ==
    /\ last_call.result = "stopped"
    /\ args.max_iterations = 3
    /\ last_call.succeeded = 3
    /\ last_call.failed >= 2

\* the tenth success wrote a summary
C30_WitnessSummary ==
    /\ last_call.succeeded = 10
    /\ last_call.summaries = 1
    /\ last_call.result # "interrupted"

\* no budget: ten failures in a row and the loop still runs
C30_WitnessUnbounded ==
    /\ args.max_iterations = 0
    /\ last_call.result = "running"
    /\ last_call.succeeded = 0
    /\ last_call.failed >= 10

====
